---- MODULE Spec2Model ----
(***************************************************************************)
(* Model of the multi-level cache of caching.py: the three single-tier     *)
(* backends (MemoryCache, RedisCache, FileCache) over their physical       *)
(* stores, and the MultiLevelCache orchestrator over a chain of backends.  *)
(*                                                                         *)
(* Strings that the code concatenates or matches (namespaces, keys,        *)
(* physical keys) are sequences of one-character strings.  Optional        *)
(* integers (ttl, expiry) use NoneInt for Python's None; an absent value   *)
(* is the string "None".  A call's outcome is "True", "False", a value,    *)
(* "None", or the name of the exception that escaped the call.             *)
(***************************************************************************)
EXTENDS Integers, Sequences, FiniteSets, TLC

VARIABLES
    backends,     \* the backend instances, fastest first (MultiLevelCache.backends)
    default_ttl,  \* MultiLevelCache.default_ttl
    mem,          \* per backend index: MemoryCache._cache (insertion order) and counters
    redis,        \* the Redis server: physical key -> [v, e]
    fs,           \* the cache directory: file path -> file content
    now,          \* time.time()
    last,         \* the last call: operation, arguments, result, backend calls made
    ghost,        \* history the claims speak about (not program state)
    threads,      \* the threads calling one MemoryCache, and its lock
    client        \* redis_client: _shared_redis_client and _redis_url_config

vars == <<backends, default_ttl, mem, redis, fs, now, last, ghost, threads, client>>

----------------------------------------------------------------------------
(* Bounds *)

MaxTime == 3
MaxCount == 1

StartTime == 1
NoneInt == -1

Keys == {<<"c">>, <<"b", ":", "c">>}
Values == {"v1", "tup", "lock"}
TTLs == {NoneInt, 1}
Serializers == {"json", "pickle"}
CacheKeys == {<<"c">>}
SharedValues == {"v1", "tup"}

----------------------------------------------------------------------------
(* Helpers on functions and sequences *)

Put(f, k, v) == [x \in (DOMAIN f) \cup {k} |-> IF x = k THEN v ELSE f[x]]

Drop(f, D) == [x \in (DOMAIN f) \ D |-> f[x]]

RemoveAt(s, j) == SubSeq(s, 1, j - 1) \o SubSeq(s, j + 1, Len(s))

IsPrefix(p, s) == Len(p) <= Len(s) /\ SubSeq(s, 1, Len(p)) = p

Ret(S, res) == [S |-> S, res |-> res]

----------------------------------------------------------------------------
(* CacheBackend *)

MakeKey(ns, key) == ns \o <<":">> \o key

MemoryBackend(ns, max_size) ==
    [type |-> "memory", ns |-> ns, ser |-> "none", max_size |-> max_size]

RedisBackend(ns, ser) ==
    [type |-> "redis", ns |-> ns, ser |-> ser, max_size |-> 0]

FileBackend(ns, ser) ==
    [type |-> "file", ns |-> ns, ser |-> ser, max_size |-> 0]

EmptyMem == [cache |-> <<>>, hits |-> 0, misses |-> 0, evictions |-> 0]

EmptyStore == [x \in {} |-> x]

\* redis_client before any call: _shared_redis_client = None (0 stands for
\* None, a client object is numbered by its creation), _redis_url_config =
\* None; made counts the client objects created so far.
NoClient == [shared |-> 0, url |-> "None", made |-> 0]

(* The faults the environment can inject into one backend call: the Redis  *)
(* command raising redis.RedisError; the call's first file-system access   *)
(* raising OSError.  The in-process tier has none.                         *)
FaultsOf(type) == IF type = "memory" THEN {"none"} ELSE {"none", "err"}

----------------------------------------------------------------------------
(* Serialization *)

\* json.loads(json.dumps(v)): a tuple comes back as a list.
JsonNorm(v) == IF v = "tup" THEN "lst" ELSE v

\* json.dumps raises TypeError on an object it cannot encode; the code turns
\* it into SerializationError.
SerializeJson(v) ==
    IF v = "lock" THEN [ok |-> FALSE, err |-> "SerializationError", data |-> "None"]
    ELSE [ok |-> TRUE, err |-> "", data |-> JsonNorm(v)]

\* pickle.dumps raises TypeError on an unpicklable object (a lock); the code
\* catches only pickle.PickleError, so the TypeError escapes.
SerializePickle(v) ==
    IF v = "lock" THEN [ok |-> FALSE, err |-> "TypeError", data |-> "None"]
    ELSE [ok |-> TRUE, err |-> "", data |-> v]

Serialize(ser, v) == IF ser = "json" THEN SerializeJson(v) ELSE SerializePickle(v)

----------------------------------------------------------------------------
(* MemoryCache *)

MemIndex(cache, pk) ==
    IF \E j \in 1..Len(cache) : cache[j].k = pk
    THEN CHOOSE j \in 1..Len(cache) : cache[j].k = pk
    ELSE 0

MemGet(S, i, key) ==
    LET m  == S.mem[i]
        pk == MakeKey(backends[i].ns, key)
        j  == MemIndex(m.cache, pk)
    IN  IF j # 0
        THEN IF m.cache[j].e # NoneInt /\ now > m.cache[j].e
             THEN Ret([S EXCEPT !.mem[i] = [m EXCEPT !.cache = RemoveAt(m.cache, j),
                                                     !.misses = @ + 1]], "None")
             ELSE Ret([S EXCEPT !.mem[i] = [m EXCEPT !.hits = @ + 1]], m.cache[j].v)
        ELSE Ret([S EXCEPT !.mem[i] = [m EXCEPT !.misses = @ + 1]], "None")

\* A variant of _evict_one that removes the entry without counting it.
EvictUncounted(m) == IF m.cache # <<>> THEN [m EXCEPT !.cache = Tail(m.cache)] ELSE m

MemEvictOne(m) ==
    IF m.cache # <<>>
    THEN [m EXCEPT !.cache = Tail(m.cache), !.evictions = @ + 1]
    ELSE m

MemNeedsEvict(m, max_size, pk) ==
    Len(m.cache) >= max_size /\ MemIndex(m.cache, pk) = 0

MemExpiry(ttl) == IF ttl # NoneInt THEN now + ttl ELSE NoneInt

MemSet(S, i, key, value, ttl) ==
    LET pk == MakeKey(backends[i].ns, key)
        m1 == IF MemNeedsEvict(S.mem[i], backends[i].max_size, pk)
              THEN MemEvictOne(S.mem[i]) ELSE S.mem[i]
        j  == MemIndex(m1.cache, pk)
        en == [k |-> pk, v |-> value, e |-> MemExpiry(ttl)]
        c2 == IF j # 0 THEN [m1.cache EXCEPT ![j] = en] ELSE Append(m1.cache, en)
    IN  Ret([S EXCEPT !.mem[i] = [m1 EXCEPT !.cache = c2]], "True")

MemDelete(S, i, key) ==
    LET m  == S.mem[i]
        j  == MemIndex(m.cache, MakeKey(backends[i].ns, key))
    IN  IF j # 0
        THEN Ret([S EXCEPT !.mem[i] = [m EXCEPT !.cache = RemoveAt(m.cache, j)]], "True")
        ELSE Ret(S, "False")

MemClear(S, i) == Ret([S EXCEPT !.mem[i] = EmptyMem], "True")

MemStats(S, i) ==
    [size |-> Len(S.mem[i].cache), max_size |-> backends[i].max_size,
     hits |-> S.mem[i].hits, misses |-> S.mem[i].misses,
     evictions |-> S.mem[i].evictions]

----------------------------------------------------------------------------
(* The Redis server, as RedisCache uses it: GET, SET, SETEX, DEL, KEYS.    *)
(* The server drops a key once its expiry has passed (see Tick).           *)

RedisCmdSet(store, pk, data) == Put(store, pk, [v |-> data, e |-> NoneInt])

RedisCmdSetex(store, pk, ttl, data) == Put(store, pk, [v |-> data, e |-> now + ttl])

RedisCmdKeys(store, prefix) == {pk \in DOMAIN store : IsPrefix(prefix, pk)}

RedisExpire(store, t) ==
    Drop(store, {pk \in DOMAIN store : store[pk].e # NoneInt /\ t > store[pk].e})

(* RedisCache *)

RedisGet(S, i, key, fault) ==
    LET pk == MakeKey(backends[i].ns, key)
    IN  IF fault = "err" THEN Ret(S, "None")
        ELSE IF pk \notin DOMAIN S.redis THEN Ret(S, "None")
        ELSE Ret(S, S.redis[pk].v)

RedisSet(S, i, key, value, ttl, fault) ==
    LET pk == MakeKey(backends[i].ns, key)
        sr == Serialize(backends[i].ser, value)
    IN  IF ~sr.ok
        THEN Ret(S, IF sr.err = "SerializationError" THEN "False" ELSE sr.err)
        ELSE IF fault = "err" THEN Ret(S, "False")
        ELSE IF ttl # NoneInt
        THEN \* SETEX rejects an expire time that is not positive (ResponseError)
             IF ttl <= 0 THEN Ret(S, "False")
             ELSE Ret([S EXCEPT !.redis = RedisCmdSetex(S.redis, pk, ttl, sr.data)], "True")
        ELSE Ret([S EXCEPT !.redis = RedisCmdSet(S.redis, pk, sr.data)], "True")

RedisDelete(S, i, key, fault) ==
    LET pk == MakeKey(backends[i].ns, key)
    IN  IF fault = "err" THEN Ret(S, "False")
        ELSE IF pk \in DOMAIN S.redis
        THEN Ret([S EXCEPT !.redis = Drop(S.redis, {pk})], "True")
        ELSE Ret(S, "False")

RedisClear(S, i, fault) ==
    LET keys == RedisCmdKeys(S.redis, backends[i].ns \o <<":">>)
    IN  IF fault = "err" THEN Ret(S, "False")
        ELSE IF keys # {}
        THEN Ret([S EXCEPT !.redis = Drop(S.redis, keys)], "True")
        ELSE Ret(S, "True")

----------------------------------------------------------------------------
(* FileCache.  hashlib.md5 is modelled as an injective tagging of the key  *)
(* (digest collisions are not modelled); the namespace directory is the    *)
(* namespace string.                                                       *)

Md5(key) == <<"md5">> \o key

Extension(ser) == IF ser = "json" THEN ".json" ELSE ".pkl"

FilePath(b, key) ==
    [dir |-> b.ns, hash |-> Md5(key), ext |-> Extension(b.ser), meta |-> FALSE]

MetaPath(p) == [p EXCEPT !.meta = TRUE]

\* A variant that compares the expiry instant the wrong way round; the TTL
\* window property tells it apart from FileExpired.
FileExpiredInverted(metadata) == metadata.expires # 0 /\ metadata.expires > now

\* A variant that never finds the sidecar's expiry passed.
FileNeverExpired(metadata) == FALSE

FileExpired(metadata) == metadata.expires # 0 /\ metadata.expires < now

FileGet(S, i, key, fault) ==
    LET p  == FilePath(backends[i], key)
        mp == MetaPath(p)
    IN  IF p \notin DOMAIN S.fs THEN Ret(S, "None")
        ELSE IF fault = "err" THEN Ret(S, "None")
        ELSE IF mp \in DOMAIN S.fs /\ FileExpired(S.fs[mp])
        THEN Ret([S EXCEPT !.fs = Drop(S.fs, {p, mp})], "None")
        ELSE Ret(S, S.fs[p].value)

FileSet(S, i, key, value, ttl, fault) ==
    LET p  == FilePath(backends[i], key)
        mp == MetaPath(p)
        sr == Serialize(backends[i].ser, value)
        f1 == Put(S.fs, p, [value |-> sr.data, expires |-> NoneInt])
        f2 == Put(f1, mp, [expires |-> now + ttl, created |-> now])
    IN  IF ~sr.ok
        THEN Ret(S, IF sr.err = "SerializationError" THEN "False" ELSE sr.err)
        ELSE IF fault = "err" THEN Ret(S, "False")
        ELSE IF ttl # NoneInt
        THEN Ret([S EXCEPT !.fs = f2], "True")
        ELSE Ret([S EXCEPT !.fs = f1], "True")

FileDelete(S, i, key, fault) ==
    LET p  == FilePath(backends[i], key)
        mp == MetaPath(p)
    IN  IF {p, mp} \cap DOMAIN S.fs # {} /\ fault = "err" THEN Ret(S, "False")
        ELSE Ret([S EXCEPT !.fs = Drop(S.fs, {p, mp})], "True")

FileClear(S, i, fault) ==
    LET files == {p \in DOMAIN S.fs : p.dir = backends[i].ns}
    IN  IF fault = "err" THEN Ret(S, "False")
        ELSE Ret([S EXCEPT !.fs = Drop(S.fs, files)], "True")

----------------------------------------------------------------------------
(* The backend contract, dispatched on the backend's class *)

BackendGet(S, i, key, fault) ==
    CASE backends[i].type = "memory" -> MemGet(S, i, key)
      [] backends[i].type = "redis"  -> RedisGet(S, i, key, fault)
      [] backends[i].type = "file"   -> FileGet(S, i, key, fault)

BackendSet(S, i, key, value, ttl, fault) ==
    CASE backends[i].type = "memory" -> MemSet(S, i, key, value, ttl)
      [] backends[i].type = "redis"  -> RedisSet(S, i, key, value, ttl, fault)
      [] backends[i].type = "file"   -> FileSet(S, i, key, value, ttl, fault)

BackendDelete(S, i, key, fault) ==
    CASE backends[i].type = "memory" -> MemDelete(S, i, key)
      [] backends[i].type = "redis"  -> RedisDelete(S, i, key, fault)
      [] backends[i].type = "file"   -> FileDelete(S, i, key, fault)

BackendClear(S, i, fault) ==
    CASE backends[i].type = "memory" -> MemClear(S, i)
      [] backends[i].type = "redis"  -> RedisClear(S, i, fault)
      [] backends[i].type = "file"   -> FileClear(S, i, fault)

----------------------------------------------------------------------------
(* MultiLevelCache.  Each operator folds over the chain as the code's for  *)
(* loop does and returns the stores, the result and the backend calls it   *)
(* made.  sf gives, per backend index, the fault that backend suffers for  *)
(* the duration of this call.  An exception raised by a backend call ends  *)
(* the loop and is the call's outcome.                                     *)

Raised(res) == res \in {"TypeError"}

Call(op, i, ttl, res) == [op |-> op, i |-> i, ttl |-> ttl, res |-> res]

Out(S, res, calls) == [S |-> S, res |-> res, calls |-> calls]

RECURSIVE PopulateFrom(_, _, _, _, _, _)
PopulateFrom(R, j, key, value, found_index, sf) ==
    IF j >= found_index THEN R
    ELSE LET r == BackendSet(R.S, j, key, value, default_ttl, sf[j])
             c == Append(R.calls, Call("set", j, default_ttl, r.res))
         IN  IF Raised(r.res) THEN Out(r.S, r.res, c)
             ELSE PopulateFrom(Out(r.S, R.res, c), j + 1, key, value, found_index, sf)

\* A variant of get that returns the hit without read-through population; the
\* population property tells it apart from PopulateFasterBackends.
ReturnWithoutPopulating(R, key, value, found_index, sf) == R

\* A variant whose loop also writes to the backend the value was found in.
PopulateThroughFound(R, key, value, found_index, sf) ==
    PopulateFrom(R, 1, key, value, found_index + 1, sf)

PopulateFasterBackends(R, key, value, found_index, sf) ==
    PopulateFrom(R, 1, key, value, found_index, sf)

RECURSIVE MultiGetFrom(_, _, _, _)
MultiGetFrom(R, i, key, sf) ==
    IF i > Len(backends) THEN Out(R.S, "None", R.calls)
    ELSE LET r == BackendGet(R.S, i, key, sf[i])
             c == Append(R.calls, Call("get", i, NoneInt, r.res))
         IN  IF r.res # "None"
             THEN PopulateFasterBackends(Out(r.S, r.res, c), key, r.res, i, sf)
             ELSE MultiGetFrom(Out(r.S, "None", c), i + 1, key, sf)

MultiGet(S, key, sf) == MultiGetFrom(Out(S, "None", <<>>), 1, key, sf)

EffectiveTTL(ttl) == IF ttl # NoneInt THEN ttl ELSE default_ttl

RECURSIVE MultiSetFrom(_, _, _, _, _, _)
MultiSetFrom(R, i, key, value, ttl, sf) ==
    IF i > Len(backends) THEN R
    ELSE LET r == BackendSet(R.S, i, key, value, ttl, sf[i])
             c == Append(R.calls, Call("set", i, ttl, r.res))
         IN  IF Raised(r.res) THEN Out(r.S, r.res, c)
             ELSE MultiSetFrom(Out(r.S, IF r.res = "True" THEN "True" ELSE R.res, c),
                               i + 1, key, value, ttl, sf)

MultiSet(S, key, value, ttl, sf) ==
    MultiSetFrom(Out(S, "False", <<>>), 1, key, value, EffectiveTTL(ttl), sf)

RECURSIVE MultiDeleteFrom(_, _, _, _)
MultiDeleteFrom(R, i, key, sf) ==
    IF i > Len(backends) THEN R
    ELSE LET r == BackendDelete(R.S, i, key, sf[i])
             c == Append(R.calls, Call("delete", i, NoneInt, r.res))
         IN  MultiDeleteFrom(Out(r.S, IF r.res = "True" THEN "True" ELSE R.res, c),
                             i + 1, key, sf)

MultiDelete(S, key, sf) == MultiDeleteFrom(Out(S, "False", <<>>), 1, key, sf)

RECURSIVE MultiClearFrom(_, _, _)
MultiClearFrom(R, i, sf) ==
    IF i > Len(backends) THEN R
    ELSE LET r == BackendClear(R.S, i, sf[i])
             c == Append(R.calls, Call("clear", i, NoneInt, r.res))
         IN  MultiClearFrom(Out(r.S, IF r.res = "True" THEN "True" ELSE R.res, c),
                            i + 1, sf)

MultiClear(S, sf) == MultiClearFrom(Out(S, "False", <<>>), 1, sf)

----------------------------------------------------------------------------
(* History kept for the claims.  ttlset[<<i, key>>] is the latest write of *)
(* key on backend i when that write was a successful set with a ttl (and   *)
(* whether a capacity eviction has removed the entry since), kept for the  *)
(* tiers that implement expiry themselves (memory, file); run[i] tells for *)
(* a memory backend whether every call on it so far was a set, without     *)
(* ttl, of a key not set before, and which keys those were.                *)

Dead == [live |-> FALSE, v |-> "None", exp |-> NoneInt, evicted |-> FALSE, ttl |-> NoneInt]

FreshRun == [pure |-> TRUE, keys |-> {}]

GhostInit(bs) ==
    [ttlset |-> [x \in (1..Len(bs)) \X Keys |-> Dead],
     run    |-> [i \in 1..Len(bs) |-> FreshRun]]

TtlAfterCall(t, c, key, value) ==
    CASE backends[c.i].type = "redis" -> t
      [] c.op = "set" ->
           [t EXCEPT ![<<c.i, key>>] =
               IF c.res = "True" /\ c.ttl # NoneInt
               THEN [live |-> TRUE, v |-> value, exp |-> now + c.ttl, evicted |-> FALSE,
                     ttl |-> c.ttl]
               ELSE Dead]
      [] c.op = "delete" -> [t EXCEPT ![<<c.i, key>>] = Dead]
      [] c.op = "clear"  -> [x \in DOMAIN t |-> IF x[1] = c.i THEN Dead ELSE t[x]]
      [] OTHER -> t

RunAfterCall(r, c, key) ==
    IF backends[c.i].type # "memory" THEN r
    ELSE IF c.op = "set" /\ c.ttl = NoneInt /\ c.res = "True"
       /\ r[c.i].pure /\ key \notin r[c.i].keys
    THEN [r EXCEPT ![c.i].keys = @ \cup {key}]
    ELSE [r EXCEPT ![c.i] = [pure |-> FALSE, keys |-> {}]]

RECURSIVE GhostAfterCalls(_, _, _, _)
GhostAfterCalls(g, calls, key, value) ==
    IF calls = <<>> THEN g
    ELSE GhostAfterCalls([ttlset |-> TtlAfterCall(g.ttlset, Head(calls), key, value),
                          run    |-> RunAfterCall(g.run, Head(calls), key)],
                         Tail(calls), key, value)

\* key2 of memory backend i was stored before the call and is gone after it
\* although the call was not about key2: it was evicted to make room.
EvictedBy(Spre, Spost, i, key, key2) ==
    /\ backends[i].type = "memory"
    /\ key2 # key
    /\ MemIndex(Spre.mem[i].cache, MakeKey(backends[i].ns, key2)) # 0
    /\ MemIndex(Spost.mem[i].cache, MakeKey(backends[i].ns, key2)) = 0

GhostNext(g, Spre, R, op, key, value) ==
    LET g1 == GhostAfterCalls(g, R.calls, key, value)
    IN  [g1 EXCEPT !.ttlset =
            [x \in DOMAIN g1.ttlset |->
                IF op \in {"set", "get"} /\ EvictedBy(Spre, R.S, x[1], key, x[2])
                THEN [g1.ttlset[x] EXCEPT !.evicted = TRUE]
                ELSE g1.ttlset[x]]]

----------------------------------------------------------------------------
(* State, initial states and calls *)

Cur == [mem |-> mem, redis |-> redis, fs |-> fs]

NoCall(op) ==
    [op |-> op, i |-> 0, key |-> <<>>, val |-> "None", ttl |-> NoneInt,
     res |-> "None", calls |-> <<>>]

DefaultNs == <<"a">>

OtherNs == <<"a", ":", "b">>

\* One backend used on its own.
SingleBackends ==
    {<<MemoryBackend(DefaultNs, n)>> : n \in {0, 1}}
      \cup {<<RedisBackend(DefaultNs, s)>> : s \in Serializers}
      \cup {<<FileBackend(DefaultNs, s)>> : s \in Serializers}

\* Two backends of different namespaces on one Redis server, one directory.
SharedStoreBackends ==
    {<<RedisBackend(DefaultNs, s), RedisBackend(OtherNs, s)>> : s \in Serializers}
      \cup {<<FileBackend(DefaultNs, s), FileBackend(OtherNs, s)>> : s \in Serializers}

\* Backend chains of a MultiLevelCache, fastest first: the chain __init__
\* builds when Redis is unreachable (with a small in-process tier), and
\* explicit backend lists whose fastest tier can fail.
CacheChains ==
    {<<MemoryBackend(DefaultNs, 1), FileBackend(DefaultNs, "pickle")>>,
     <<RedisBackend(DefaultNs, "pickle"), FileBackend(DefaultNs, "pickle")>>,
     <<RedisBackend(DefaultNs, "json"), FileBackend(DefaultNs, "pickle")>>}

DefaultTTLs == {2}

FaultVectors ==
    {f \in [1..Len(backends) -> {"none", "err"}] :
        \A i \in 1..Len(backends) : f[i] \in FaultsOf(backends[i].type)}

InitWith(chains) ==
    /\ backends \in chains
    /\ default_ttl \in DefaultTTLs
    /\ mem = [i \in 1..Len(backends) |-> EmptyMem]
    /\ redis = EmptyStore
    /\ fs = EmptyStore
    /\ now = StartTime
    /\ last = NoCall("init")
    /\ ghost = GhostInit(backends)
    /\ threads = <<>>
    /\ client = NoClient

Within(S) ==
    \A i \in DOMAIN S.mem :
        /\ S.mem[i].hits <= MaxCount
        /\ S.mem[i].misses <= MaxCount
        /\ S.mem[i].evictions <= MaxCount

Commit(R0, op, i, key, value, ttl) ==
  \E R \in {R0} :
    /\ Within(R.S)
    /\ mem' = R.S.mem
    /\ redis' = R.S.redis
    /\ fs' = R.S.fs
    /\ last' = [op |-> op, i |-> i, key |-> key, val |-> value, ttl |-> ttl,
                res |-> R.res, calls |-> R.calls]
    /\ ghost' = GhostNext(ghost, Cur, R, op, key, value)
    /\ UNCHANGED <<backends, default_ttl, now, threads, client>>

One(r, op, i, ttl) == Out(r.S, r.res, <<Call(op, i, ttl, r.res)>>)

(* Calls on one backend *)

Get(i, key, fault) ==
    Commit(One(BackendGet(Cur, i, key, fault), "get", i, NoneInt),
           "get", i, key, "None", NoneInt)

Set(i, key, value, ttl, fault) ==
    Commit(One(BackendSet(Cur, i, key, value, ttl, fault), "set", i, ttl),
           "set", i, key, value, ttl)

Delete(i, key, fault) ==
    Commit(One(BackendDelete(Cur, i, key, fault), "delete", i, NoneInt),
           "delete", i, key, "None", NoneInt)

Clear(i, fault) ==
    Commit(One(BackendClear(Cur, i, fault), "clear", i, NoneInt),
           "clear", i, <<>>, "None", NoneInt)

(* Calls on the MultiLevelCache *)

CacheGet(key, sf) ==
    Commit(MultiGet(Cur, key, sf), "get", 0, key, "None", NoneInt)

CacheSet(key, value, ttl, sf) ==
    Commit(MultiSet(Cur, key, value, ttl, sf), "set", 0, key, value, ttl)

CacheDelete(key, sf) ==
    Commit(MultiDelete(Cur, key, sf), "delete", 0, key, "None", NoneInt)

CacheClear(sf) ==
    Commit(MultiClear(Cur, sf), "clear", 0, <<>>, "None", NoneInt)

(* Time passes; the Redis server drops the keys whose expiry has passed. *)
Tick ==
    /\ now < MaxTime
    /\ now' = now + 1
    /\ redis' = RedisExpire(redis, now + 1)
    /\ last' = NoCall("tick")
    /\ UNCHANGED <<backends, default_ttl, mem, fs, ghost, threads, client>>

(* Calls on a single backend *)
Init == InitWith(SingleBackends)

Next ==
    \/ \E i \in 1..Len(backends), key \in Keys :
          \E f \in FaultsOf(backends[i].type) : Get(i, key, f)
    \/ \E i \in 1..Len(backends), key \in Keys, value \in Values, ttl \in TTLs :
          \E f \in FaultsOf(backends[i].type) : Set(i, key, value, ttl, f)
    \/ \E i \in 1..Len(backends), key \in Keys :
          \E f \in FaultsOf(backends[i].type) : Delete(i, key, f)
    \/ \E i \in 1..Len(backends) :
          \E f \in FaultsOf(backends[i].type) : Clear(i, f)
    \/ Tick

Spec == Init /\ [][Next]_vars

(* Calls on two backends that share a physical store *)
InitShared == InitWith(SharedStoreBackends)

NextShared ==
    \/ \E i \in 1..Len(backends), key \in Keys : Get(i, key, "none")
    \/ \E i \in 1..Len(backends), key \in Keys, value \in SharedValues :
          Set(i, key, value, NoneInt, "none")
    \/ \E i \in 1..Len(backends), key \in Keys : Delete(i, key, "none")
    \/ \E i \in 1..Len(backends) : Clear(i, "none")

SpecShared == InitShared /\ [][NextShared]_vars

(* Calls on a MultiLevelCache *)
InitCache == InitWith(CacheChains)

NextCache ==
    \/ \E key \in CacheKeys, sf \in FaultVectors :
          CacheGet(key, sf)
    \/ \E key \in CacheKeys, value \in Values, ttl \in TTLs, sf \in FaultVectors :
          CacheSet(key, value, ttl, sf)
    \/ \E key \in CacheKeys, sf \in FaultVectors :
          CacheDelete(key, sf)
    \/ \E sf \in FaultVectors :
          CacheClear(sf)
    \/ \E i \in 1..Len(backends) :
          backends[i].type = "memory" /\ Clear(i, "none")
    \/ Tick

SpecCache == InitCache /\ [][NextCache]_vars

----------------------------------------------------------------------------
(* What the claims observe *)

NoFaults == [i \in 1..Len(backends) |-> "none"]

\* What get(key) on backend i returns now, when the environment injects no fault.
GetRes(i, key) == BackendGet(Cur, i, key, "none").res

\* The MultiLevelCache.get(key) that would follow now, without faults.
NextGet(key) == MultiGet(Cur, key, NoFaults)

\* Backend i physically holds an entry for key.
HoldsEntry(i, key) ==
    CASE backends[i].type = "memory" ->
           MemIndex(mem[i].cache, MakeKey(backends[i].ns, key)) # 0
      [] backends[i].type = "redis" -> MakeKey(backends[i].ns, key) \in DOMAIN redis
      [] backends[i].type = "file" -> FilePath(backends[i], key) \in DOMAIN fs

\* The value a get returns for a value the backend accepted: json backends
\* return the decoded JSON, the others the value itself.
RoundTripped(i, v) == IF backends[i].ser = "json" THEN JsonNorm(v) ELSE v

DirectCall(op) == last.op = op /\ last.i # 0

CacheCall(op) == last.op = op /\ last.i = 0

----------------------------------------------------------------------------
(* C1.  For each single-tier backend, every key k and every value v its    *)
(* serializer represents: a set(k, v) the backend accepted, followed       *)
(* immediately by get(k) on the same backend, returns v, whatever the      *)
(* backend held before.                                                    *)
C1_ClaimedRoundTrip ==
    (DirectCall("set") /\ last.ttl = NoneInt /\ last.res = "True"
        /\ RoundTripped(last.i, last.val) = last.val)
    => GetRes(last.i, last.key) = last.val

----------------------------------------------------------------------------
(* C2.  MultiLevelCache: whenever set(k, v) returns True, an immediately   *)
(* following get(k) returns v, also when the write failed in some tiers.   *)
C2_ClaimedCacheRoundTrip ==
    (CacheCall("set") /\ last.res = "True"
        /\ \A i \in 1..Len(backends) : RoundTripped(i, last.val) = last.val)
    => NextGet(last.key).res = last.val

----------------------------------------------------------------------------
(* C3.  MemoryCache and FileCache: after set(k, v, ttl=t) with no later    *)
(* write to k, get(k) returns v at every instant before t seconds have     *)
(* elapsed and None at every instant after; an expired entry is never      *)
(* returned.                                                               *)
TtlWritten(i, key) == ghost.ttlset[<<i, key>>]

C3_ClaimedTtlWindow ==
    \A i \in 1..Len(backends), key \in Keys :
        TtlWritten(i, key).live =>
            /\ now < TtlWritten(i, key).exp => GetRes(i, key) = TtlWritten(i, key).v
            /\ now > TtlWritten(i, key).exp => GetRes(i, key) = "None"

(* C3 as amended: before t seconds have elapsed get(k) returns v as the    *)
(* backend's serializer round-trips it, provided no capacity eviction of   *)
(* the in-process tier has removed k in between; after t seconds it        *)
(* returns None.                                                           *)
C3_TtlWindow ==
    \A i \in 1..Len(backends), key \in Keys :
        TtlWritten(i, key).live =>
            /\ (now < TtlWritten(i, key).exp /\ ~TtlWritten(i, key).evicted)
                  => GetRes(i, key) = RoundTripped(i, TtlWritten(i, key).v)
            /\ now > TtlWritten(i, key).exp => GetRes(i, key) = "None"

\* A get after the ttl of the latest write has elapsed reported a miss, on a
\* backend whose entry had been readable before.
C3_Witness ==
    /\ DirectCall("get")
    /\ TtlWritten(last.i, last.key).live
    /\ now > TtlWritten(last.i, last.key).exp
    /\ backends[last.i].type = "file"
    /\ last.res = "None"

----------------------------------------------------------------------------
(* C4.  MultiLevelCache.get(k): if k is first found at backend index       *)
(* i > 0, then when get returns every backend with index < i holds the     *)
(* found value (written with the default TTL), and a following get(k) is   *)
(* answered by backend 0 without calling get on any slower backend.        *)

\* The (1-based) index of the backend whose get found the key, or 0.
FoundIndex(calls) ==
    IF \E n \in 1..Len(calls) : calls[n].op = "get" /\ calls[n].res # "None"
    THEN calls[CHOOSE n \in 1..Len(calls) :
                 calls[n].op = "get" /\ calls[n].res # "None"].i
    ELSE 0

PopulateCall(calls, j) ==
    CHOOSE c \in {calls[n] : n \in 1..Len(calls)} : c.op = "set" /\ c.i = j

Populated(calls, j) ==
    \E n \in 1..Len(calls) :
        calls[n].op = "set" /\ calls[n].i = j /\ calls[n].ttl = default_ttl

FoundInSlowerTier == CacheCall("get") /\ ~Raised(last.res) /\ FoundIndex(last.calls) > 1

AnsweredByFastest(key, v) ==
    NextGet(key).calls = <<Call("get", 1, NoneInt, v)>> /\ NextGet(key).res = v

C4_ClaimedPopulation ==
    FoundInSlowerTier =>
        /\ \A j \in 1..(FoundIndex(last.calls) - 1) :
              Populated(last.calls, j) /\ GetRes(j, last.key) = last.res
        /\ AnsweredByFastest(last.key, last.res)

(* C4 as amended: get calls set(k, value, default_ttl) on every backend    *)
(* with index < i; each of them whose set returned True then holds the     *)
(* found value as its serializer round-trips it, and when that includes    *)
(* backend 0 a following get(k) is answered by backend 0 alone.            *)
C4_Population ==
    FoundInSlowerTier =>
        /\ \A j \in 1..(FoundIndex(last.calls) - 1) :
              /\ Populated(last.calls, j)
              /\ PopulateCall(last.calls, j).res = "True"
                    => GetRes(j, last.key) = RoundTripped(j, last.res)
        /\ PopulateCall(last.calls, 1).res = "True"
              => AnsweredByFastest(last.key, RoundTripped(1, last.res))

\* A get found the key in the second tier only and populated the first.
C4_Witness ==
    /\ FoundInSlowerTier
    /\ PopulateCall(last.calls, 1).res = "True"
    /\ backends[1].type = "redis"
    /\ GetRes(1, last.key) = last.res

----------------------------------------------------------------------------
(* C5.  Starting from an empty MemoryCache with capacity max_size,         *)
(* inserting max_size + 1 distinct keys (no TTL) results in exactly one    *)
(* eviction and a final size of max_size, and the last inserted key is     *)
(* still retrievable, for every max_size the constructor accepts.          *)
C5_ClaimedOneEviction ==
    \A i \in 1..Len(backends) :
        (/\ backends[i].type = "memory"
         /\ DirectCall("set") /\ last.i = i
         /\ ghost.run[i].pure
         /\ Cardinality(ghost.run[i].keys) = backends[i].max_size + 1)
        => /\ MemStats(Cur, i).evictions = 1
           /\ MemStats(Cur, i).size = backends[i].max_size
           /\ GetRes(i, last.key) = last.val

----------------------------------------------------------------------------
(* C6.  After any sequence of set, get, delete and clear calls on one      *)
(* MemoryCache, the number of stored entries never exceeds max_size.       *)
C6_ClaimedSizeBound ==
    \A i \in 1..Len(backends) :
        backends[i].type = "memory" => MemStats(Cur, i).size <= backends[i].max_size

----------------------------------------------------------------------------
(* C7.  MultiLevelCache.set(k, v, ttl) calls set on every backend of the   *)
(* chain, passing the given ttl or the default_ttl when ttl is None, and   *)
(* returns True exactly when at least one backend's set returned True.     *)
C7_ClaimedFanOut ==
    CacheCall("set") =>
        /\ Len(last.calls) = Len(backends)
        /\ \A n \in 1..Len(last.calls) :
              /\ last.calls[n].op = "set"
              /\ last.calls[n].i = n
              /\ last.calls[n].ttl = IF last.ttl # NoneInt THEN last.ttl ELSE default_ttl
        /\ last.res \in {"True", "False"}
        /\ last.res = "True" <=> \E n \in 1..Len(last.calls) : last.calls[n].res = "True"

----------------------------------------------------------------------------
(* C8.  MultiLevelCache.delete(k) calls delete on every backend, so that   *)
(* afterwards no backend returns a value for k; it returns True exactly    *)
(* when at least one backend actually removed an entry for k, and False    *)
(* when k was absent from every tier.                                      *)
C8_ClaimedDelete ==
    [][\A key \in Keys :
          (last'.op = "delete" /\ last'.i = 0 /\ last'.key = key) =>
             /\ Len(last'.calls) = Len(backends)
             /\ last'.res = "True" <=>
                   \E j \in 1..Len(backends) :
                       HoldsEntry(j, key) /\ ~HoldsEntry(j, key)']_vars

----------------------------------------------------------------------------
(* C9.  For every backend type, delete(k) removes the entry if present and *)
(* returns True if and only if an entry for k existed and was removed;     *)
(* deleting an absent key returns False and changes nothing.               *)
C9_ClaimedBackendDelete ==
    [][\A i \in 1..Len(backends), key \in Keys :
          (last'.op = "delete" /\ last'.i = i /\ last'.key = key) =>
             /\ last'.res = "True" <=> (HoldsEntry(i, key) /\ ~HoldsEntry(i, key)')
             /\ ~HoldsEntry(i, key) =>
                   last'.res = "False" /\ UNCHANGED <<mem, redis, fs>>]_vars

----------------------------------------------------------------------------
(* C10.  Namespace isolation: for two backends with different namespaces   *)
(* sharing one physical store, no set, delete or clear on one backend      *)
(* changes what get returns on the other.                                  *)
C10_ClaimedIsolation ==
    [][\A i, j \in 1..Len(backends), key \in Keys :
          (i # j /\ last'.i = i /\ last'.op \in {"set", "delete", "clear"})
          => GetRes(j, key)' = GetRes(j, key)]_vars

----------------------------------------------------------------------------
(* C11.  No transport, OS or serialization failure inside an operation of  *)
(* RedisCache or FileCache propagates as an exception to the caller: get   *)
(* yields None or a value, the other operations yield True or False.       *)
C11_ClaimedNoPropagation ==
    (last.i # 0 /\ backends[last.i].type \in {"redis", "file"}) =>
        /\ ~Raised(last.res)
        /\ last.op \in {"set", "delete", "clear"} => last.res \in {"True", "False"}

----------------------------------------------------------------------------
(* MultiLevelCache constructed without a backend list.  redis_ok tells     *)
(* whether RedisCache._connect reached the server; when it did not,        *)
(* RedisCache.__init__ raises CacheBackendError and the constructor falls  *)
(* back to the chain without the remote tier.  The stores of the remote    *)
(* and the durable tier outlive the instance; the in-process tier is new.  *)

DefaultMaxSize == 1000

MultiLevelCacheInit(ns, redis_ok) ==
    IF redis_ok
    THEN <<MemoryBackend(ns, DefaultMaxSize), RedisBackend(ns, "pickle"),
           FileBackend(ns, "pickle")>>
    ELSE <<MemoryBackend(ns, DefaultMaxSize), FileBackend(ns, "pickle")>>

Connect(redis_ok) ==
    Call("connect", 0, NoneInt, IF redis_ok THEN "True" ELSE "CacheBackendError")

Construct(redis_ok) ==
    /\ backends' = MultiLevelCacheInit(DefaultNs, redis_ok)
    /\ mem' = [i \in 1..Len(backends') |-> EmptyMem]
    /\ last' = [NoCall("construct") EXCEPT !.calls = <<Connect(redis_ok)>>]
    /\ ghost' = GhostInit(backends')
    /\ UNCHANGED <<default_ttl, redis, fs, now, threads, client>>

(* A MultiLevelCache built by its constructor, used, and built again over  *)
(* the same stores.                                                        *)
InitCtor == InitWith({<<>>})

NextCtor ==
    \/ \E redis_ok \in BOOLEAN : Construct(redis_ok)
    \/ \E key \in CacheKeys, sf \in FaultVectors :
          backends # <<>> /\ CacheGet(key, sf)
    \/ \E key \in CacheKeys, value \in Values, ttl \in TTLs, sf \in FaultVectors :
          backends # <<>> /\ CacheSet(key, value, ttl, sf)
    \/ Tick

SpecCtor == InitCtor /\ [][NextCtor]_vars

(* C12.  When MultiLevelCache is constructed without a backend list and    *)
(* the remote tier cannot be reached, construction succeeds with exactly   *)
(* the chain [MemoryCache, FileCache], and set followed by get round-trips *)
(* on that chain; when the remote tier is reachable the chain is           *)
(* [MemoryCache, RedisCache, FileCache].                                   *)
Types(bs) == [i \in 1..Len(bs) |-> bs[i].type]

ChainAsConstructed ==
    last.op = "construct" =>
        Types(backends) = IF last.calls[1].res = "CacheBackendError"
                          THEN <<"memory", "file">>
                          ELSE <<"memory", "redis", "file">>

RoundTripOnFallback ==
    (CacheCall("set") /\ Types(backends) = <<"memory", "file">>) =>
        last.res = "True" /\ NextGet(last.key).res = last.val

C12_ClaimedFallback == ChainAsConstructed /\ RoundTripOnFallback

----------------------------------------------------------------------------
(* get_many.  CacheBackend.get_many calls get for each key in turn;        *)
(* RedisCache.get_many reads the same keys with one MGET.  found maps each *)
(* key the backend returned a value for to that value.                     *)

RECURSIVE GetManyFrom(_, _, _, _)
GetManyFrom(R, i, keyseq, fault) ==
    IF keyseq = <<>> THEN R
    ELSE LET r == BackendGet(R.S, i, Head(keyseq), fault)
         IN  GetManyFrom([S |-> r.S,
                          found |-> IF r.res # "None"
                                    THEN Put(R.found, Head(keyseq), r.res)
                                    ELSE R.found],
                         i, Tail(keyseq), fault)

BackendGetMany(S, i, keyseq, fault) ==
    GetManyFrom([S |-> S, found |-> EmptyStore], i, keyseq, fault)

GetManyCall(i, keyseq, found) ==
    [op |-> "get_many", i |-> i, ttl |-> NoneInt, res |-> found, keys |-> keyseq]

(* MultiLevelCache.get_many.  remaining_keys is a Python set: the order in *)
(* which it is listed for a backend is not fixed by the code, so ord, an   *)
(* ordering of all keys, is an input of the call.  The values a backend    *)
(* found are taken and populated in that order.                            *)
RECURSIVE PopulateFound(_, _, _, _, _)
PopulateFound(R, keyseq, found, i, sf) ==
    IF keyseq = <<>> THEN R
    ELSE IF Head(keyseq) \in DOMAIN found
    THEN LET k == Head(keyseq)
             p == PopulateFasterBackends(Out(R.S, "None", R.calls), k, found[k], i, sf)
         IN  PopulateFound([S |-> p.S, res |-> Put(R.res, k, found[k]),
                            calls |-> p.calls, remaining |-> R.remaining \ {k}],
                           Tail(keyseq), found, i, sf)
    ELSE PopulateFound(R, Tail(keyseq), found, i, sf)

\* A variant that asks every backend for every key, resolved or not; the
\* get_many equivalence tells it apart from Unresolved.
AllKeys(ord, remaining) == ord

\* list(remaining_keys): the keys not yet resolved, in the order ord.
Unresolved(ord, remaining) == SelectSeq(ord, LAMBDA k : k \in remaining)

RECURSIVE MultiGetManyFrom(_, _, _, _)
MultiGetManyFrom(R, i, ord, sf) ==
    IF i > Len(backends) \/ R.remaining = {} THEN R
    ELSE LET keyseq == Unresolved(ord, R.remaining)
             g == BackendGetMany(R.S, i, keyseq, sf[i])
             c == Append(R.calls, GetManyCall(i, keyseq, g.found))
         IN  MultiGetManyFrom(
                 PopulateFound([S |-> g.S, res |-> R.res, calls |-> c,
                                remaining |-> R.remaining],
                               keyseq, g.found, i, sf),
                 i + 1, ord, sf)

MultiGetMany(S, keys, ord, sf) ==
    MultiGetManyFrom([S |-> S, res |-> EmptyStore, calls |-> <<>>,
                      remaining |-> {keys[n] : n \in 1..Len(keys)}], 1, ord, sf)

\* The history of writes is not followed through get_many.
GhostForget(bs) ==
    [ttlset |-> [x \in (1..Len(bs)) \X Keys |-> Dead],
     run    |-> [i \in 1..Len(bs) |-> [pure |-> FALSE, keys |-> {}]]]

\* One get_many counts a hit or a miss for every key it asks the tier for.
WithinMany(S) ==
    \A i \in DOMAIN S.mem :
        /\ S.mem[i].hits <= MaxCount * Cardinality(Keys)
        /\ S.mem[i].misses <= MaxCount * Cardinality(Keys)
        /\ S.mem[i].evictions <= MaxCount * Cardinality(Keys)

CacheGetMany(keys, ord, sf) ==
  \E R \in {MultiGetMany(Cur, keys, ord, sf)} :
    /\ WithinMany(R.S)
    /\ mem' = R.S.mem
    /\ redis' = R.S.redis
    /\ fs' = R.S.fs
    /\ last' = [op |-> "get_many", i |-> 0, key |-> keys, val |-> "None",
                ttl |-> NoneInt, res |-> R.res, calls |-> R.calls, faults |-> sf]
    /\ ghost' = GhostForget(backends)
    /\ UNCHANGED <<backends, default_ttl, now, threads, client>>

(* A MultiLevelCache read with get_many *)
ManyChains ==
    {<<MemoryBackend(DefaultNs, 1), FileBackend(DefaultNs, "pickle")>>,
     <<RedisBackend(DefaultNs, "pickle"), FileBackend(DefaultNs, "pickle")>>}

KeyOrders == {<<k1, k2>> : k1, k2 \in Keys} \ {<<k, k>> : k \in Keys}

KeyLists == {<<k>> : k \in Keys} \cup KeyOrders

InitMany == InitWith(ManyChains)

NextMany ==
    \/ \E key \in Keys, value \in SharedValues, sf \in FaultVectors :
          CacheSet(key, value, NoneInt, sf)
    \/ \E keys \in KeyLists, ord \in KeyOrders, sf \in FaultVectors :
          CacheGetMany(keys, ord, sf)
    \/ \E i \in 1..Len(backends) :
          backends[i].type = "memory" /\ Clear(i, "none")

SpecMany == InitMany /\ [][NextMany]_vars

----------------------------------------------------------------------------
(* C13.  MultiLevelCache.get_many(keys) is equivalent to calling           *)
(* MultiLevelCache.get on each distinct key: it returns exactly the        *)
(* mapping {k: get(k)} over the keys for which get(k) is not None, leaves  *)
(* every backend in the same contents as the per-key gets would, and       *)
(* queries each backend only for the keys no faster backend resolved,      *)
(* stopping once no key is unresolved.                                     *)

RECURSIVE SeqGets(_, _, _)
SeqGets(R, keyseq, sf) ==
    IF keyseq = <<>> THEN R
    ELSE LET g == MultiGet(R.S, Head(keyseq), sf)
         IN  SeqGets([S |-> g.S,
                      res |-> IF g.res # "None" THEN Put(R.res, Head(keyseq), g.res)
                              ELSE R.res],
                     Tail(keyseq), sf)

\* MultiLevelCache.get on each key of keys in turn, with the mapping of the hits.
GetEach(S, keys, sf) == SeqGets([S |-> S, res |-> EmptyStore], keys, sf)

\* What the backends hold, the counters of the in-process tier left aside.
Contents(S) ==
    [mem |-> [i \in DOMAIN S.mem |-> S.mem[i].cache], redis |-> S.redis, fs |-> S.fs]

\* Backend n of the chain was asked exactly for the requested keys that no
\* faster backend had returned, and no backend was asked for nothing.
QueriesOnlyUnresolved(calls, keys) ==
    LET q == SelectSeq(calls, LAMBDA c : c.op = "get_many")
        Resolved(n) == UNION {DOMAIN q[m].res : m \in 1..(n - 1)}
    IN  \A n \in 1..Len(q) :
            /\ q[n].i = n
            /\ q[n].keys # <<>>
            /\ {q[n].keys[x] : x \in 1..Len(q[n].keys)}
                   = {keys[x] : x \in 1..Len(keys)} \ Resolved(n)

SameAsGetEach(keys, sf) ==
    /\ last'.res = GetEach(Cur, keys, sf).res
    /\ Contents(Cur)' = Contents(GetEach(Cur, keys, sf).S)
    /\ QueriesOnlyUnresolved(last'.calls, keys)

NoCapacityEviction ==
    \A i \in 1..Len(backends) : mem'[i].evictions = mem[i].evictions

----------------------------------------------------------------------------
(* cache_key.  A positional argument or keyword value is tagged with its   *)
(* Python type; Str is str(): the decimal digits of an int, the string     *)
(* itself for a str.  Strings are sequences of one-character strings.      *)

IntArg(n) == [t |-> "int", n |-> n, s |-> <<>>]

StrArg(s) == [t |-> "str", n |-> 0, s |-> s]

Digit(d) == <<"0", "1", "2", "3", "4", "5", "6", "7", "8", "9">>[d + 1]

RECURSIVE Decimal(_)
Decimal(n) == IF n < 10 THEN <<Digit(n)>> ELSE Decimal(n \div 10) \o <<Digit(n % 10)>>

Str(arg) == IF arg.t = "int" THEN Decimal(arg.n) ELSE arg.s

\* Code points of the characters keyword names are made of.
Ord(ch) == IF ch = "a" THEN 97 ELSE 98

\* sorted(kwargs.items()): the items are (name, value) tuples with distinct
\* one-character names, so the comparison is decided by the names.
ItemLess(x, y) == Ord(x[1]) < Ord(y[1])

RECURSIVE Insert(_, _)
Insert(sorted, item) ==
    IF sorted = <<>> THEN <<item>>
    ELSE IF ItemLess(item, Head(sorted)) THEN <<item>> \o sorted
    ELSE <<Head(sorted)>> \o Insert(Tail(sorted), item)

RECURSIVE Sorted(_)
Sorted(items) ==
    IF items = <<>> THEN <<>> ELSE Insert(Sorted(Tail(items)), Head(items))

\* ":".join(parts)
RECURSIVE Join(_)
Join(parts) ==
    IF parts = <<>> THEN <<>>
    ELSE IF Len(parts) = 1 THEN parts[1]
    ELSE parts[1] \o <<":">> \o Join(Tail(parts))

KeyParts(args, kwargs) ==
    [n \in 1..Len(args) |-> Str(args[n])]
        \o [n \in 1..Len(kwargs) |->
               <<Sorted(kwargs)[n][1]>> \o <<"=">> \o Str(Sorted(kwargs)[n][2])]

\* kwargs is the sequence of (name, value) items in the order of the call.
CacheKey(args, kwargs) == Md5(Join(KeyParts(args, kwargs)))

(* Calls of cache_key *)
ArgValues ==
    {IntArg(1), IntArg(12), StrArg(<<"1">>), StrArg(<<"a">>), StrArg(<<"a", ":", "a">>)}

KwValues == {IntArg(1), StrArg(<<"a">>)}

ArgLists == {<<>>} \cup {<<x>> : x \in ArgValues} \cup {<<x, y>> : x, y \in ArgValues}

KwLists ==
    {<<>>} \cup {<<<<n, v>>>> : n \in {"a", "b"}, v \in KwValues}
           \cup {<<<<x[1], v1>>, <<x[2], v2>>>> :
                    x \in {<<"a", "b">>, <<"b", "a">>}, v1 \in KwValues, v2 \in KwValues}

CallCacheKey(args, kwargs) ==
    /\ last' = [op |-> "cache_key", i |-> 0, args |-> args, kwargs |-> kwargs,
                res |-> CacheKey(args, kwargs)]
    /\ UNCHANGED <<backends, default_ttl, mem, redis, fs, now, ghost, threads, client>>

InitKey == InitWith({<<>>})

NextKey == \E args \in ArgLists, kwargs \in KwLists : CallCacheKey(args, kwargs)

SpecKey == InitKey /\ [][NextKey]_vars

(* C14.  cache_key is deterministic, ignores the order in which keyword    *)
(* arguments are passed, and is sensitive to the order of positional       *)
(* arguments: cache_key(x, y, a=p, b=q) = cache_key(x, y, b=q, a=p), and   *)
(* cache_key(x, y) # cache_key(y, x) whenever str(x) # str(y).             *)
Reversed(s) == [n \in 1..Len(s) |-> s[Len(s) + 1 - n]]

KeywordOrderIgnored ==
    last.op = "cache_key" => CacheKey(last.args, Reversed(last.kwargs)) = last.res

PositionalOrderMatters ==
    (last.op = "cache_key" /\ Len(last.args) = 2 /\ last.kwargs = <<>>
        /\ Str(last.args[1]) # Str(last.args[2]))
    => CacheKey(Reversed(last.args), <<>>) # last.res

C14_ClaimedKeyOrder == KeywordOrderIgnored /\ PositionalOrderMatters

(* C30.  cache_key distinguishes call shapes: the string it hashes is      *)
(* different for any two calls whose sequences of stringified positional   *)
(* arguments and sorted name=value keyword pairs differ, so two different  *)
(* argument lists of a @cached function never share a cache entry.         *)
C30_ClaimedDistinctShapes ==
    last.op = "cache_key" =>
        \A args \in ArgLists, kwargs \in KwLists :
            KeyParts(args, kwargs) # KeyParts(last.args, last.kwargs)
            => /\ Join(KeyParts(args, kwargs)) # Join(KeyParts(last.args, last.kwargs))
               /\ CacheKey(args, kwargs) # last.res

----------------------------------------------------------------------------
(* @cached.  One call of the wrapper of a decorated function named "f":    *)
(* args are the positional arguments, result is what the function returns  *)
(* if the wrapper invokes it, enabled is settings.CACHE_ENABLED, ttl the   *)
(* decorator's ttl.  The call's outcome tells whether the function was     *)
(* invoked.  get_cache hands out one MultiLevelCache per namespace: the    *)
(* in-process tier alone, or the chain the constructor builds.             *)

FuncName == StrArg(<<"f">>)

WrapperKey(args) == CacheKey(<<FuncName>> \o args, <<>>)

Invocation(S, res, invoked, calls) ==
    [S |-> S, res |-> res, invoked |-> invoked, calls |-> calls]

\* A variant of the wrapper that consults the cache whatever the flag says; the
\* bypass property tells it apart from CacheEnabled.
AlwaysEnabled(enabled) == TRUE

\* if not settings.CACHE_ENABLED: return func(*args, **kwargs)
CacheEnabled(enabled) == enabled

Wrapper(S, args, result, enabled, ttl, sf) ==
    IF ~CacheEnabled(enabled) THEN Invocation(S, result, TRUE, <<>>)
    ELSE LET key == WrapperKey(args)
             g   == MultiGet(S, key, sf)
             s   == MultiSet(g.S, key, result, ttl, sf)
         IN  IF g.res # "None" THEN Invocation(g.S, g.res, FALSE, g.calls)
             ELSE Invocation(s.S, IF Raised(s.res) THEN s.res ELSE result, TRUE,
                             g.calls \o s.calls)

\* The argument lists the function has been called with so far.
Seen == IF "seen" \in DOMAIN ghost THEN ghost.seen ELSE {}

CachedCall(args, result, enabled, ttl, sf) ==
  \E R \in {Wrapper(Cur, args, result, enabled, ttl, sf)} :
    /\ WithinMany(R.S)
    /\ mem' = R.S.mem
    /\ redis' = R.S.redis
    /\ fs' = R.S.fs
    /\ last' = [op |-> "cached", i |-> 0, args |-> args, val |-> result,
                enabled |-> enabled, ttl |-> ttl, res |-> R.res,
                invoked |-> R.invoked, calls |-> R.calls]
    /\ ghost' = [ttlset |-> GhostForget(backends).ttlset,
                 run |-> GhostForget(backends).run,
                 seen |-> Seen \cup {args}]
    /\ UNCHANGED <<backends, default_ttl, now, threads, client>>

(* Calls of a decorated function *)
GetCacheChains ==
    {<<MemoryBackend(DefaultNs, DefaultMaxSize)>>,
     MultiLevelCacheInit(DefaultNs, FALSE)}

FnArgs ==
    {<<IntArg(1)>>, <<StrArg(<<"a">>), StrArg(<<"a", ":", "a">>)>>,
     <<StrArg(<<"a", ":", "a">>), StrArg(<<"a">>)>>}

FnResults == {"v1", "None", "lock"}

InitFn == InitWith(GetCacheChains)

NextFn ==
    \/ \E args \in FnArgs, result \in FnResults, enabled \in BOOLEAN,
          sf \in FaultVectors :
          CachedCall(args, result, enabled, NoneInt, sf)

SpecFn == InitFn /\ [][NextFn]_vars

(* C15.  For a function wrapped with @cached and caching enabled: two      *)
(* calls with identical arguments invoke the underlying function exactly   *)
(* once (the second call returns the cached result without invoking it),   *)
(* for every return value of the function; a call with different           *)
(* arguments invokes the function again.                                   *)
EnabledCall(l) == l.op = "cached" /\ l.enabled

C15_ClaimedInvokedOnce ==
    [][/\ (EnabledCall(last) /\ EnabledCall(last') /\ last'.args = last.args
              /\ last.invoked)
          => (~last'.invoked /\ last'.res = last.res)
       /\ (EnabledCall(last') /\ last'.args \notin Seen) => last'.invoked]_vars

----------------------------------------------------------------------------
(* C16.  When settings.CACHE_ENABLED is false, every call of a             *)
(* @cached-wrapped function invokes the underlying function exactly once   *)
(* and performs no cache read or write: the contents and the hit/miss      *)
(* counters of every tier are unchanged by the call.                       *)
C16_DisabledBypass ==
    [][(last'.op = "cached" /\ ~last'.enabled) =>
          /\ last'.invoked
          /\ last'.res = last'.val
          /\ last'.calls = <<>>
          /\ UNCHANGED <<mem, redis, fs>>]_vars

\* A call with caching disabled invoked the function although the in-process
\* tier holds a result for the same arguments.
C16_Witness ==
    /\ last.op = "cached"
    /\ ~last.enabled
    /\ last.invoked
    /\ HoldsEntry(1, WrapperKey(last.args))
    /\ GetRes(1, WrapperKey(last.args)) # "None"

----------------------------------------------------------------------------
(* Threads on one MemoryCache.  Every operation runs its body under        *)
(* self._lock (an RLock that no body re-enters).  A thread first calls the *)
(* operation (which computes the namespaced key), then acquires the lock,  *)
(* then runs the body in the steps below, the last of which returns and    *)
(* releases the lock.  threads.lock is the owner (0: free); loc holds the  *)
(* body's local variables; snap is the cache as the thread found it when   *)
(* it took the lock; gets, evicted and written are history: the gets       *)
(* returned and the entries evicted since construction or the last clear,  *)
(* and the (key, value) pairs stored so far.                               *)

Threads == {1, 2}

NoLocals == [present |-> FALSE, v |-> "None", e |-> NoneInt, c |-> 0]

IdleThread ==
    [pc |-> "idle", op |-> "none", key |-> <<>>, val |-> "None", loc |-> NoLocals,
     snap |-> EmptyMem]

\* The calls a thread makes, with the arguments each operation takes.
ThreadCalls ==
    {[op |-> "set", key |-> <<"c">>, val |-> "v1"],
     [op |-> "set", key |-> <<"b", ":", "c">>, val |-> "tup"]}
    \cup {[op |-> op, key |-> k, val |-> "None"] : op \in {"get", "delete"}, k \in Keys}
    \cup {[op |-> op, key |-> <<>>, val |-> "None"] : op \in {"clear", "get_stats"}}

\* Gets (or sets) that threads have called and not yet returned from.
InProgress(op) == Cardinality({t \in Threads : threads.t[t].op = op})

TheCache == mem[1]

PhysKey(t) == MakeKey(backends[1].ns, threads.t[t].key)

Begin(t, op, key, value) ==
    /\ threads.t[t].pc = "idle"
    /\ op = "get" =>
          TheCache.hits + TheCache.misses + InProgress("get") < MaxCount * Cardinality(Keys)
    /\ op = "set" =>
          TheCache.evictions + InProgress("set") <= MaxCount * Cardinality(Keys)
    /\ threads' = [threads EXCEPT !.t[t] =
                      [IdleThread EXCEPT !.pc = "acquire", !.op = op, !.key = key,
                                         !.val = value]]
    /\ UNCHANGED <<backends, default_ttl, mem, redis, fs, now, last, ghost, client>>

\* with self._lock:
Acquire(t) ==
    /\ threads.t[t].pc = "acquire"
    /\ threads.lock = 0
    /\ threads' = [threads EXCEPT !.lock = t, !.t[t].pc = "locked",
                                  !.t[t].snap = TheCache]
    /\ UNCHANGED <<backends, default_ttl, mem, redis, fs, now, last, ghost, client>>

\* The call returns: the lock is released and the outcome recorded.
Return(t, res, cache) ==
    /\ last' = [op |-> threads.t[t].op, i |-> 1, key |-> threads.t[t].key,
                val |-> threads.t[t].val, ttl |-> NoneInt, res |-> res,
                calls |-> <<>>, thread |-> t]
    /\ mem' = [mem EXCEPT ![1] = cache]
    /\ UNCHANGED <<backends, default_ttl, redis, fs, now, ghost, client>>

\* get: if namespaced_key in self._cache: value, expiry = self._cache[...]
GetRead(t) ==
    /\ threads.t[t].pc = "locked" /\ threads.t[t].op = "get"
    /\ LET j == MemIndex(TheCache.cache, PhysKey(t))
       IN  threads' = [threads EXCEPT !.t[t].pc = "read",
                          !.t[t].loc = IF j = 0 THEN NoLocals
                                       ELSE [present |-> TRUE, v |-> TheCache.cache[j].v,
                                             e |-> TheCache.cache[j].e, c |-> 0]]
    /\ UNCHANGED <<backends, default_ttl, mem, redis, fs, now, last, ghost, client>>

IsHit(loc) == loc.present /\ ~(loc.e # NoneInt /\ now > loc.e)

\* get: an expired entry is deleted; the counter to update is read.
GetCount(t) ==
    /\ threads.t[t].pc = "read"
    /\ LET loc == threads.t[t].loc
           j   == MemIndex(TheCache.cache, PhysKey(t))
       IN  /\ mem' = IF loc.present /\ ~IsHit(loc) /\ j # 0
                     THEN [mem EXCEPT ![1].cache = RemoveAt(@, j)]
                     ELSE mem
           /\ threads' = [threads EXCEPT !.t[t].pc = "counted",
                             !.t[t].loc.c = IF IsHit(loc) THEN TheCache.hits
                                            ELSE TheCache.misses]
    /\ UNCHANGED <<backends, default_ttl, redis, fs, now, last, ghost, client>>

\* get: self._hits += 1 or self._misses += 1 is completed, and get returns.
GetFinish(t) ==
    /\ threads.t[t].pc = "counted"
    /\ LET loc == threads.t[t].loc
       IN  Return(t, IF IsHit(loc) THEN loc.v ELSE "None",
                  IF IsHit(loc) THEN [TheCache EXCEPT !.hits = loc.c + 1]
                  ELSE [TheCache EXCEPT !.misses = loc.c + 1])
    /\ threads' = [threads EXCEPT !.lock = 0, !.t[t] = IdleThread, !.gets = @ + 1]

\* set: if len(self._cache) >= self._max_size and the key is new: self._evict_one()
SetEvict(t) ==
    /\ threads.t[t].pc = "locked" /\ threads.t[t].op = "set"
    /\ LET evict == MemNeedsEvict(TheCache, backends[1].max_size, PhysKey(t))
       IN  /\ mem' = IF evict THEN [mem EXCEPT ![1] = MemEvictOne(TheCache)] ELSE mem
           /\ threads' = [threads EXCEPT !.t[t].pc = "evicted",
                             !.evicted = IF evict /\ TheCache.cache # <<>>
                                         THEN @ + 1 ELSE @]
    /\ UNCHANGED <<backends, default_ttl, redis, fs, now, last, ghost, client>>

\* set: self._cache[namespaced_key] = (value, expiry); return True
MemStore(m, pk, value, ttl) ==
    LET j  == MemIndex(m.cache, pk)
        en == [k |-> pk, v |-> value, e |-> MemExpiry(ttl)]
    IN  [m EXCEPT !.cache = IF j # 0 THEN [m.cache EXCEPT ![j] = en]
                            ELSE Append(m.cache, en)]

SetStore(t) ==
    /\ threads.t[t].pc = "evicted"
    /\ Return(t, "True", MemStore(TheCache, PhysKey(t), threads.t[t].val, default_ttl))
    /\ threads' = [threads EXCEPT !.lock = 0, !.t[t] = IdleThread,
                      !.written = @ \cup {<<threads.t[t].key, threads.t[t].val>>}]

DeleteBody(t) ==
    /\ threads.t[t].pc = "locked" /\ threads.t[t].op = "delete"
    /\ LET r == MemDelete(Cur, 1, threads.t[t].key)
       IN  Return(t, r.res, r.S.mem[1])
    /\ threads' = [threads EXCEPT !.lock = 0, !.t[t] = IdleThread]

ClearBody(t) ==
    /\ threads.t[t].pc = "locked" /\ threads.t[t].op = "clear"
    /\ Return(t, "True", MemClear(Cur, 1).S.mem[1])
    /\ threads' = [threads EXCEPT !.lock = 0, !.t[t] = IdleThread,
                                  !.gets = 0, !.evicted = 0]

StatsBody(t) ==
    /\ threads.t[t].pc = "locked" /\ threads.t[t].op = "get_stats"
    /\ Return(t, MemStats(Cur, 1), TheCache)
    /\ threads' = [threads EXCEPT !.lock = 0, !.t[t] = IdleThread]

(* Several threads calling one MemoryCache *)
ThreadedBackends == {<<MemoryBackend(DefaultNs, n)>> : n \in {0, 1}}

InitThreads ==
    /\ backends \in ThreadedBackends
    /\ default_ttl \in DefaultTTLs
    /\ mem = <<EmptyMem>>
    /\ redis = EmptyStore
    /\ fs = EmptyStore
    /\ now = StartTime
    /\ last = NoCall("init")
    /\ ghost = GhostInit(backends)
    /\ threads = [lock |-> 0, t |-> [x \in Threads |-> IdleThread],
                  gets |-> 0, evicted |-> 0, written |-> {}]
    /\ client = NoClient

NextThreads ==
    \/ \E t \in Threads, c \in ThreadCalls : Begin(t, c.op, c.key, c.val)
    \/ \E t \in Threads : Acquire(t)
    \/ \E t \in Threads : GetRead(t)
    \/ \E t \in Threads : GetCount(t)
    \/ \E t \in Threads : GetFinish(t)
    \/ \E t \in Threads : SetEvict(t)
    \/ \E t \in Threads : SetStore(t)
    \/ \E t \in Threads : DeleteBody(t)
    \/ \E t \in Threads : ClearBody(t)
    \/ \E t \in Threads : StatsBody(t)

SpecThreads == InitThreads /\ [][NextThreads]_vars

(* What one call does when nothing runs beside it: the cache it leaves     *)
(* and the value it returns, from the cache it found.                      *)
Alone(m, op, key, value) ==
    LET S == [Cur EXCEPT !.mem = <<m>>]
        r == CASE op = "get"    -> MemGet(S, 1, key)
               [] op = "set"    -> MemSet(S, 1, key, value, default_ttl)
               [] op = "delete" -> MemDelete(S, 1, key)
               [] op = "clear"  -> MemClear(S, 1)
               [] OTHER         -> Ret(S, MemStats(S, 1))
    IN  [cache |-> r.S.mem[1], res |-> r.res]

\* A call that returns leaves what it would have left, and returns what it
\* would have returned, had it run alone on the cache it found.
AtomicCalls ==
    [][\A t \in Threads :
          (threads.lock = t /\ threads'.lock = 0) =>
              LET a == Alone(threads.t[t].snap, threads.t[t].op, threads.t[t].key,
                             threads.t[t].val)
              IN  mem'[1] = a.cache /\ last'.res = a.res]_vars

SizeBound == Len(TheCache.cache) <= backends[1].max_size

NoCounterLost ==
    /\ TheCache.hits + TheCache.misses = threads.gets
    /\ TheCache.evictions = threads.evicted

ReturnsOnlyWhatWasSet ==
    (last.op = "get" /\ last.res # "None") => <<last.key, last.res>> \in threads.written

\* C17: on one MemoryCache called from several threads the size bound is
\* never exceeded, no update of hits, misses or evictions is lost, and a get
\* returns only a value that was set for that key.
C17_ClaimedThreadSafety == SizeBound /\ NoCounterLost /\ ReturnsOnlyWhatWasSet

----------------------------------------------------------------------------
(* The Celery task process_query (src/apps/backend/tasks.py) with the      *)
(* collaborators it imports: get_cache, set_cache and publish_message of   *)
(* redis_client, query_expert_embeddings of vector_db,                     *)
(* generate_mock_persona_prompt and LightAgent.  Text is a sequence of     *)
(* pieces.  One run is one action; it records, in order, every call the    *)
(* task makes to a collaborator (trace), what it returned or raised, and   *)
(* the result cache it leaves in Redis.                                    *)

Queries == {"q1", "q2"}

\* Which of the client's commands fail with redis.RedisError during a run.
RedisFaults == SUBSET {"get", "set", "publish"}

\* What the vector store does with the query: the collection is missing or
\* the query fails (both give []), experts are found, an entry without
\* metadata makes the result loop raise, or an expert cannot be encoded by
\* json.dumps in the task.
VectorDbOutcomes == {"unavailable", "found", "raises", "unencodable"}

ResultTtl == 600

ResultKey(query) == <<"query_result:", query>>

\* json.dumps / json.loads of a str
JsonDumps(text) == <<"\"">> \o text \o <<"\"">>

JsonLoads(data) == SubSeq(data, 2, Len(data) - 1)

\* redis_client.get_cache: the decoded entry, or None (found is false) when
\* the key is absent or the command fails.
GetCacheOf(store, key, faults) ==
    IF "get" \in faults \/ key \notin DOMAIN store
    THEN [found |-> FALSE, v |-> <<>>]
    ELSE [found |-> TRUE, v |-> JsonLoads(store[key].v)]

\* redis_client.set_cache: client.set(key, json.dumps(value), ex=ex); a
\* failure is logged and False returned.
SetCacheOf(store, key, value, ex, faults) ==
    IF "set" \in faults THEN store
    ELSE RedisCmdSetex(store, key, ex, JsonDumps(value))

\* One entry of the trace: a message handed to publish_message (with what it
\* returned), or a call of another collaborator.
Published(status, level, error, faults) ==
    [ev |-> "publish", arg |-> status, level |-> level, error |-> error,
     ok |-> "publish" \notin faults, key |-> <<>>, ex |-> NoneInt]

Called(name, arg, ok) ==
    [ev |-> name, arg |-> arg, level |-> "", error |-> "", ok |-> ok, key |-> <<>>,
     ex |-> NoneInt]

Received(query) == <<"Query received: '", query, "'">>

FromCache == <<"Retrieved query result from cache.">>

NotInCache == <<"Query not in cache. Proceeding with vector DB lookup.">>

QueryingVectorDb == <<"Querying vector database for expert candidates...">>

Candidates(vdb) == IF vdb = "unavailable" THEN <<>> ELSE <<"e1", "e2", "e3">>

Retrieved(cands) ==
    <<"Retrieved ">> \o Decimal(Len(cands)) \o <<" expert candidates from vector DB.">>

PersonaPrompt(query) ==
    <<"You are a helpful AI persona. Your task is to respond to the query: '", query, "'.">>

PersonaGenerated(prompt) == <<"Mock persona generated: '">> \o prompt \o <<"'">>

AgentTaskId == <<"mock_task_">> \o Decimal(now)

AgentProgress(text) == <<"LightAgent (">> \o AgentTaskId \o <<"): ", text>>

ReasoningOutput(prompt, query) ==
    <<"LightAgent's simplified reasoning output:\nPersona Context: ">> \o prompt
    \o <<"\nUser Query: ", query, "\nMock Debate Result: ...">>

ResultCached(key) == <<"Query result cached for key: ">> \o key

ErrorStatus == <<"An error occurred during processing.">>

FinalContent(query, cands, output) ==
    <<"AI Agent Core processed query: '", query, "'.\nExpert Candidates: [">> \o cands
    \o <<"]\nLightAgent Output: ">> \o output

CachedContent(query, cached) ==
    <<"AI Agent Core processed query: '", query, "'.\n(Cached Result) ">> \o cached

\* How a run ends: the value returned, or the exception raised.
Outcome(trace, ret, raised, store) ==
    [trace |-> trace, ret |-> ret, raised |-> raised, store |-> store]

\* A variant that treats every cache answer as a miss.
NeverTruthy(cached) == FALSE

\* if cached_result:
Truthy(cached) == cached.found /\ cached.v # <<>>

\* A variant that swallows the exception and reports completion.
Swallowed(trace, e, store, faults) ==
    Outcome(trace \o <<Published(ErrorStatus, "SUCCESS", "", faults)>>, ErrorStatus, "", store)

\* except Exception as e: publish payload_error; raise
Failed(trace, e, store, faults) ==
    Outcome(trace \o <<Published(ErrorStatus, "ERROR", e, faults)>>, <<>>, e, store)

\* LightAgent(publish_progress=...).run_reasoning(persona_prompt, query)
RunReasoning(trace, prompt, query, faults) ==
    trace \o <<Called("LightAgent", <<>>, TRUE),
               Called("run_reasoning", prompt \o <<query>>, TRUE),
               Published(AgentProgress("Starting single-round reasoning..."), "INFO", "", faults),
               Published(AgentProgress("Reasoning complete. Generating response..."), "INFO", "", faults),
               Published(AgentProgress("Final response generated."), "INFO", "", faults)>>

\* A variant that leaves the result out of the cache.
WithoutCacheWrite(trace, key, value, faults) == trace

\* set_cache(cache_key, final_result_content, ex=600), as the task sees it
WithCacheWrite(trace, key, value, faults) ==
    trace \o <<[Called("set_cache", value, "set" \notin faults)
                   EXCEPT !.key = key, !.ex = ResultTtl]>>

\* The steps after the cache miss, from the vector DB lookup on.
AfterMiss(trace, store, query, faults, vdb) ==
    LET key    == ResultKey(query)
        cands  == Candidates(vdb)
        t1     == trace \o <<Published(NotInCache, "INFO", "", faults),
                             Published(QueryingVectorDb, "INFO", "", faults),
                             Called("query_expert_embeddings", <<"3">>, vdb # "raises")>>
        t2     == t1 \o <<Published(Retrieved(cands), "INFO", "", faults)>>
        prompt == PersonaPrompt(query)
        t3     == t2 \o <<Called("generate_mock_persona_prompt", <<query>>, TRUE),
                          Published(PersonaGenerated(prompt), "INFO", "", faults)>>
        t4     == RunReasoning(t3, prompt, query, faults)
        result == FinalContent(query, cands, ReasoningOutput(prompt, query))
        t5     == WithCacheWrite(t4, key, result, faults)
        t6     == t5 \o <<Published(ResultCached(key), "INFO", "", faults),
                          Published(result, "SUCCESS", "", faults)>>
    IN  IF vdb = "raises"
        THEN Failed(t1, "'NoneType' object has no attribute 'get'", store, faults)
        ELSE IF vdb = "unencodable"
        THEN Failed(t2, "Object of type float32 is not JSON serializable", store, faults)
        ELSE Outcome(t6, result, "", SetCacheOf(store, key, result, ResultTtl, faults))

\* process_query(query)
ProcessQueryOf(store, query, faults, vdb) ==
    LET key    == ResultKey(query)
        cached == GetCacheOf(store, key, faults)
        t0     == <<Published(Received(query), "INFO", "", faults),
                    Called("get_cache", key, "get" \notin faults)>>
    IN  IF Truthy(cached)
        THEN Outcome(t0 \o <<Published(FromCache, "INFO", "", faults)>>,
                     CachedContent(query, cached.v), "", store)
        ELSE AfterMiss(t0, store, query, faults, vdb)

ProcessQuery(query, faults, vdb) ==
    LET r == ProcessQueryOf(redis, query, faults, vdb)
    IN  /\ redis' = r.store
        /\ last' = [op |-> "process_query", i |-> 0, query |-> query, faults |-> faults,
                    vdb |-> vdb, cached |-> GetCacheOf(redis, ResultKey(query), faults),
                    trace |-> r.trace, res |-> r.ret, raised |-> r.raised]
        /\ UNCHANGED <<backends, default_ttl, mem, fs, now, ghost, threads, client>>

\* The server drops a result whose ex has passed (the clock of the model
\* counts in steps far shorter than ResultTtl, so the lapse is a step of its
\* own).
ResultExpires(query) ==
    /\ ResultKey(query) \in DOMAIN redis
    /\ redis' = RedisExpire(redis, redis[ResultKey(query)].e + 1)
    /\ last' = NoCall("expire")
    /\ UNCHANGED <<backends, default_ttl, mem, fs, now, ghost, threads, client>>

InitTask == InitWith({<<>>})

NextTask ==
    \/ \E query \in Queries, faults \in RedisFaults, vdb \in VectorDbOutcomes :
          ProcessQuery(query, faults, vdb)
    \/ \E query \in Queries : ResultExpires(query)
    \/ Tick

SpecTask == InitTask /\ [][NextTask]_vars

\* The positions of the trace that hold an event of the kind.
Where(trace, ev) == {n \in DOMAIN trace : trace[n].ev = ev}

\* The messages handed to publish_message, in order.
Messages(trace) == SelectSeq(trace, LAMBDA x : x.ev = "publish")

TaskRan == last.op = "process_query"

\* get_cache returned a result for the key of the query.
CacheHit == TaskRan /\ last.cached.found

SkipsProcessing ==
    /\ Where(last.trace, "query_expert_embeddings") = {}
    /\ Where(last.trace, "LightAgent") = {}
    /\ Where(last.trace, "set_cache") = {}
    /\ Len(Messages(last.trace)) = 2
    /\ Messages(last.trace)[1].arg = Received(last.query)
    /\ Messages(last.trace)[2].arg = FromCache

\* C18 as stated: on a cache hit process_query returns the cached result,
\* queries no vector database, creates no LightAgent, never calls set_cache,
\* and publishes exactly two messages, 'Query received' and then 'Retrieved
\* query result from cache.'.
C18_ClaimedCacheHit ==
    CacheHit => (last.res = last.cached.v /\ last.raised = "" /\ SkipsProcessing)

\* C18, amended: what the task returns on a hit is the cached result behind
\* the text "AI Agent Core processed query: '<query>'.\n(Cached Result) ".
C18_CacheHit ==
    CacheHit =>
        /\ last.res = CachedContent(last.query, last.cached.v)
        /\ last.raised = ""
        /\ SkipsProcessing

\* C18 witness: a run that found the result of an earlier run in the cache.
C18_Witness ==
    /\ CacheHit
    /\ last.cached.v = FinalContent(last.query, <<"e1", "e2", "e3">>,
                                    ReasoningOutput(PersonaPrompt(last.query), last.query))
    /\ Len(last.trace) = 3

\* A processing step raised after the cache miss.
StepRaised == TaskRan /\ ~Truthy(last.cached) /\ last.vdb \in {"raises", "unencodable"}

LastMessage == Messages(last.trace)[Len(Messages(last.trace))]

NoSuccessMessage == \A n \in DOMAIN last.trace : last.trace[n].level # "SUCCESS"

\* C19: when a processing step raises after the cache miss, the exception
\* propagates to the caller, the last message published has level ERROR and
\* carries the error text, no SUCCESS message is published, and set_cache is
\* never called.
C19_ErrorPath ==
    StepRaised =>
        /\ last.raised # "" /\ last.res = <<>>
        /\ LastMessage.level = "ERROR" /\ LastMessage.arg = ErrorStatus
        /\ LastMessage.error = last.raised
        /\ NoSuccessMessage
        /\ Where(last.trace, "set_cache") = {}

\* C19 witness: the vector DB lookup raised after three messages.
C19_Witness ==
    /\ StepRaised /\ last.vdb = "raises"
    /\ Len(Messages(last.trace)) = 4
    /\ last.raised = "'NoneType' object has no attribute 'get'"

\* The run missed the cache and every collaborator succeeded.
MissSucceeded ==
    TaskRan /\ ~Truthy(last.cached) /\ last.vdb \in {"unavailable", "found"}

\* The position of the message whose status is the text.
MessageAt(trace, status) == {n \in Where(trace, "publish") : trace[n].arg = status}

AgentMessages(trace) ==
    {n \in Where(trace, "publish") :
        IsPrefix(<<"LightAgent (">>, trace[n].arg)}

\* C20: on a cache miss with every collaborator succeeding, 'Query received'
\* is the first message, set_cache('query_result:<query>', result, ex=600)
\* is called exactly once and after the reasoning agent was run, the last
\* message has level SUCCESS and carries the result the task returns, and
\* every LightAgent progress message lies between the persona message and
\* the cache write.
C20_MissSuccess ==
    MissSucceeded =>
        LET tr  == last.trace
            set == Where(tr, "set_cache")
            per == MessageAt(tr, PersonaGenerated(PersonaPrompt(last.query)))
        IN  /\ last.raised = ""
            /\ Messages(tr)[1].arg = Received(last.query)
            /\ Cardinality(set) = 1
            /\ \A n \in set :
                  /\ tr[n].key = ResultKey(last.query)
                  /\ tr[n].arg = last.res
                  /\ tr[n].ex = ResultTtl
                  /\ \A r \in Where(tr, "run_reasoning") : r < n
                  /\ \A a \in AgentMessages(tr) : a < n
            /\ Where(tr, "run_reasoning") # {}
            /\ Cardinality(per) = 1
            /\ \A p \in per : \A a \in AgentMessages(tr) : p < a
            /\ tr[Len(tr)].ev = "publish"
            /\ tr[Len(tr)].level = "SUCCESS"
            /\ tr[Len(tr)].arg = last.res

\* C20 witness: a run that found experts, published the three LightAgent
\* messages and wrote the result that a later get_cache returns.
C20_Witness ==
    /\ MissSucceeded /\ last.vdb = "found"
    /\ Cardinality(AgentMessages(last.trace)) = 3
    /\ GetCacheOf(redis, ResultKey(last.query), {}).found
    /\ GetCacheOf(redis, ResultKey(last.query), {}).v = last.res

----------------------------------------------------------------------------
(* redis_client.get_redis_client and get_redis_url: the shared client.     *)
(* The environment of one call: the override URL passed, the REDIS_URL     *)
(* variable, and whether the server answers the ping.                      *)

MaxClients == 3

NoUrl == "None"

OverrideUrls == {NoUrl, "redis://a", "redis://b"}

EnvUrls == {NoUrl, "redis://env"}

\* from_url raises ValueError on a malformed URL, ping raises ConnectionError
\* when the server does not answer.
ConnectOutcomes == {"ok", "ValueError", "ConnectionError"}

ComponentsUrl == "redis://localhost:6379/0"

\* current_redis_url: the override, else REDIS_URL, else host/port/db
ResolveUrl(override, env) ==
    IF override # NoUrl THEN override
    ELSE IF env # NoUrl THEN env
    ELSE ComponentsUrl

\* A variant that never finds the shared client initialised.
NeverInitialised(c) == FALSE

\* if _shared_redis_client:
Initialised(c) == c.shared # 0

\* get_redis_client(redis_url_override): the module state it leaves, what it
\* returns (res; 0 is None) and the calls it made on the redis library.
GetRedisClientOf(c, override, env, outcome) ==
    IF Initialised(c)
    THEN [c |-> c, res |-> c.shared, calls |-> <<>>]
    ELSE IF outcome = "ok"
    THEN [c |-> [shared |-> c.made + 1, url |-> ResolveUrl(override, env),
                 made |-> c.made + 1],
          res |-> c.made + 1, calls |-> <<"from_url", "ping">>]
    ELSE IF outcome = "ConnectionError"
    THEN [c |-> [shared |-> 0, url |-> NoUrl, made |-> c.made + 1],
          res |-> 0, calls |-> <<"from_url", "ping">>]
    ELSE [c |-> [c EXCEPT !.url = NoUrl], res |-> 0, calls |-> <<"from_url">>]

GetRedisClient(override, env, outcome) ==
    LET r == GetRedisClientOf(client, override, env, outcome)
    IN  /\ r.c.made <= MaxClients
        /\ client' = r.c
        /\ last' = [op |-> "get_redis_client", i |-> 0, override |-> override,
                    env |-> env, outcome |-> outcome, res |-> r.res, calls |-> r.calls]
        /\ UNCHANGED <<backends, default_ttl, mem, redis, fs, now, ghost, threads>>

\* get_redis_url(): the configured URL, determined from the environment when
\* no call of get_redis_client has stored one.
GetRedisUrl(env) ==
    LET url == IF client.url # NoUrl THEN client.url ELSE ResolveUrl(NoUrl, env)
    IN  /\ client' = [client EXCEPT !.url = url]
        /\ last' = [op |-> "get_redis_url", i |-> 0, override |-> NoUrl, env |-> env,
                    outcome |-> "ok", res |-> 0, calls |-> <<>>]
        /\ UNCHANGED <<backends, default_ttl, mem, redis, fs, now, ghost, threads>>

InitClient == InitWith({<<>>})

NextClient ==
    \/ \E override \in OverrideUrls, env \in EnvUrls, outcome \in ConnectOutcomes :
          GetRedisClient(override, env, outcome)
    \/ \E env \in EnvUrls : GetRedisUrl(env)

SpecClient == InitClient /\ [][NextClient]_vars

\* C21: once a call has connected, every later call of get_redis_client
\* returns the same client without from_url or ping, whatever override URL
\* is passed; a call whose connection attempt fails returns None and stores
\* no client, and a call that finds no client stored attempts the connection.
C21_Singleton ==
    [][last'.op = "get_redis_client" =>
          /\ client.shared # 0 =>
                /\ last'.res = client.shared
                /\ last'.calls = <<>>
                /\ client'.shared = client.shared
          /\ client.shared = 0 =>
                /\ last'.calls # <<>> /\ last'.calls[1] = "from_url"
                /\ last'.outcome # "ok" => (last'.res = 0 /\ client'.shared = 0)
                /\ last'.outcome = "ok" => (last'.res # 0 /\ client'.shared = last'.res)]_vars

\* C21 witness: after a failed attempt and then a successful one, a call
\* with another override URL got the stored client back.
C21_Witness ==
    /\ last.op = "get_redis_client" /\ last.override = "redis://b"
    /\ last.calls = <<>> /\ last.res = client.shared
    /\ client.made > client.shared - 1 /\ client.made >= 2 /\ client.shared = 2
    /\ client.url = "redis://a"

----------------------------------------------------------------------------
(* C22.  MultiLevelCache.get never calls set on the backend where the      *)
(* value was found nor on any slower backend, and a get that misses in     *)
(* every tier calls set on no backend; apart from each tier's own purge of *)
(* an expired entry, get leaves the found tier and all slower tiers        *)
(* unchanged.                                                              *)

\* Everything backend j keeps: for a MemoryCache its map and its counters.
TierState(S, j) ==
    CASE backends[j].type = "memory" -> S.mem[j]
      [] backends[j].type = "redis"  -> S.redis
      [] backends[j].type = "file"   -> S.fs

\* The entries backend j keeps.
TierEntries(S, j) ==
    CASE backends[j].type = "memory" -> S.mem[j].cache
      [] backends[j].type = "redis"  -> S.redis
      [] backends[j].type = "file"   -> S.fs

\* The entries of backend j once an expired entry of key is purged by get.
EntriesPurged(S, j, key) ==
    CASE backends[j].type = "memory" ->
           LET n == MemIndex(S.mem[j].cache, MakeKey(backends[j].ns, key))
           IN  IF n # 0 THEN RemoveAt(S.mem[j].cache, n) ELSE S.mem[j].cache
      [] backends[j].type = "redis"  -> S.redis
      [] backends[j].type = "file"   ->
           Drop(S.fs, {FilePath(backends[j], key), MetaPath(FilePath(backends[j], key))})

StatePurged(S, j, key) ==
    IF backends[j].type = "memory"
    THEN [S.mem[j] EXCEPT !.cache = EntriesPurged(S, j, key)]
    ELSE EntriesPurged(S, j, key)

\* set is called only on backends faster than the one at found_index (0: the
\* value was found nowhere).
SetsOnlyFaster(calls, found_index) ==
    \A n \in 1..Len(calls) : calls[n].op = "set" => calls[n].i < found_index

\* The tiers a get must leave alone: the found one and the slower ones.
FoundOrSlower(found_index) ==
    {j \in 1..Len(backends) : found_index = 0 \/ j >= found_index}

\* C22 as stated, the tiers compared with everything they keep.
C22_ClaimedFrame ==
    [][(last'.op = "get" /\ last'.i = 0) =>
          \A key \in CacheKeys : last'.key = key =>
              /\ SetsOnlyFaster(last'.calls, FoundIndex(last'.calls))
              /\ \A j \in FoundOrSlower(FoundIndex(last'.calls)) :
                    \/ TierState(Cur, j)' = TierState(Cur, j)
                    \/ TierState(Cur, j)' = StatePurged(Cur, j, key)]_vars

\* C22, amended: get calls set only on backends faster than the found one,
\* and leaves the entries of the found tier and of the slower tiers as they
\* were apart from the purge of an expired entry of the key; a MemoryCache
\* among them counts the get in hits or misses.
C22_Frame ==
    [][(last'.op = "get" /\ last'.i = 0) =>
          \A key \in CacheKeys : last'.key = key =>
              /\ SetsOnlyFaster(last'.calls, FoundIndex(last'.calls))
              /\ \A j \in FoundOrSlower(FoundIndex(last'.calls)) :
                    \/ TierEntries(Cur, j)' = TierEntries(Cur, j)
                    \/ TierEntries(Cur, j)' = EntriesPurged(Cur, j, key)]_vars

\* C22 witness: a get found the key in the file tier, wrote it to the
\* faster tier, and the file tier still holds it.
C22_Witness ==
    /\ CacheCall("get") /\ FoundIndex(last.calls) = 2
    /\ \E n \in 1..Len(last.calls) : last.calls[n].op = "set" /\ last.calls[n].i = 1
    /\ backends[2].type = "file" /\ HoldsEntry(2, last.key)
    /\ backends[1].type = "memory"

----------------------------------------------------------------------------
(* C23.  MemoryCache.set evicts exactly one entry when, and only when, the *)
(* map is at capacity and the key is new; overwriting an existing key at   *)
(* capacity evicts nothing.  The evicted entry is the one whose key was    *)
(* inserted earliest among the entries present; neither a get hit nor an   *)
(* overwrite of a key changes its place in that order.                     *)

\* The keys of a MemoryCache map, in insertion order.
KeysOf(cache) == [n \in 1..Len(cache) |-> cache[n].k]

C23_ClaimedEviction ==
    [][\A i \in 1..Len(backends), key \in Keys :
          (backends[i].type = "memory" /\ last'.i = i /\ last'.key = key) =>
              LET pre   == mem[i].cache
                  post  == mem'[i].cache
                  pk    == MakeKey(backends[i].ns, key)
                  atcap == Len(pre) >= backends[i].max_size
                  new   == MemIndex(pre, pk) = 0
              IN  /\ (last'.op = "set" /\ atcap /\ new) =>
                        /\ mem'[i].evictions = mem[i].evictions + 1
                        /\ pre # <<>>
                        /\ KeysOf(post) = Append(Tail(KeysOf(pre)), pk)
                  /\ (last'.op = "set" /\ ~atcap /\ new) =>
                        /\ mem'[i].evictions = mem[i].evictions
                        /\ KeysOf(post) = Append(KeysOf(pre), pk)
                  /\ (last'.op = "set" /\ ~new) =>
                        /\ mem'[i].evictions = mem[i].evictions
                        /\ KeysOf(post) = KeysOf(pre)
                  /\ (last'.op = "get" /\ last'.res # "None") =>
                        /\ mem'[i].evictions = mem[i].evictions
                        /\ KeysOf(post) = KeysOf(pre)]_vars

----------------------------------------------------------------------------
(* C24.  MemoryCache counters: every get increments exactly one of hits or *)
(* misses (a get of an absent or expired key counts as a miss, any other   *)
(* get as a hit), so that hits + misses counts the gets since construction *)
(* or the last clear; evictions counts the entries removed by capacity     *)
(* eviction; get_stats reports the number of stored entries as size; set   *)
(* and delete change no counter other than evictions.                      *)

\* The entry of key in the map is absent, or its expiry has passed.
AbsentOrExpired(m, pk) ==
    \/ MemIndex(m.cache, pk) = 0
    \/ /\ m.cache[MemIndex(m.cache, pk)].e # NoneInt
       /\ now > m.cache[MemIndex(m.cache, pk)].e

C24_Counters ==
    [][\A i \in 1..Len(backends), key \in Keys :
          (backends[i].type = "memory" /\ last'.i = i) =>
              LET m   == mem[i]
                  m2  == mem'[i]
                  pk  == MakeKey(backends[i].ns, key)
                  new == MemIndex(m.cache, pk) = 0
              IN  /\ (last'.op = "get" /\ last'.key = key) =>
                        /\ m2.evictions = m.evictions
                        /\ IF AbsentOrExpired(m, pk)
                           THEN m2.misses = m.misses + 1 /\ m2.hits = m.hits
                                /\ last'.res = "None"
                           ELSE m2.hits = m.hits + 1 /\ m2.misses = m.misses
                                /\ last'.res # "None"
                  /\ (last'.op = "set" /\ last'.key = key) =>
                        /\ m2.hits = m.hits /\ m2.misses = m.misses
                        /\ m2.evictions - m.evictions
                              = Len(m.cache) + (IF new THEN 1 ELSE 0) - Len(m2.cache)
                  /\ (last'.op = "delete" /\ last'.key = key) =>
                        /\ m2.hits = m.hits /\ m2.misses = m.misses
                        /\ m2.evictions = m.evictions
                  /\ last'.op = "clear" =>
                        m2.hits = 0 /\ m2.misses = 0 /\ m2.evictions = 0
                  /\ MemStats(Cur, i)'.size = Len(m2.cache)]_vars

\* C24 witness: after a capacity eviction, a get of the evicted key was
\* counted as a miss.
C24_Witness ==
    /\ DirectCall("get") /\ backends[last.i].type = "memory"
    /\ last.res = "None"
    /\ MemStats(Cur, last.i).misses = 1
    /\ MemStats(Cur, last.i).evictions = 1
    /\ MemStats(Cur, last.i).size = 1

----------------------------------------------------------------------------
(* C25.  When get(k) detects that the entry for k has expired, it removes  *)
(* the entry from the tier before reporting the miss: MemoryCache deletes  *)
(* the map entry (size decreases by one), and FileCache deletes both the   *)
(* data file and its .meta sidecar, so that a later set(k, v) without ttl  *)
(* starts from a state with no sidecar for k.                              *)

\* Backend i holds an entry for key whose expiry instant has passed.
HoldsExpired(i, key) ==
    CASE backends[i].type = "memory" ->
           LET n == MemIndex(mem[i].cache, MakeKey(backends[i].ns, key))
           IN  n # 0 /\ mem[i].cache[n].e # NoneInt /\ now > mem[i].cache[n].e
      [] backends[i].type = "file" ->
           LET p == FilePath(backends[i], key)
           IN  /\ p \in DOMAIN fs /\ MetaPath(p) \in DOMAIN fs
               /\ fs[MetaPath(p)].expires # 0 /\ fs[MetaPath(p)].expires < now
      [] OTHER -> FALSE

C25_ExpiredPurged ==
    [][\A i \in 1..Len(backends), key \in Keys :
          (last'.op = "get" /\ last'.i = i /\ last'.key = key /\ HoldsExpired(i, key)) =>
              /\ last'.res = "None"
              /\ backends[i].type = "memory" =>
                    /\ MemIndex(mem'[i].cache, MakeKey(backends[i].ns, key)) = 0
                    /\ Len(mem'[i].cache) = Len(mem[i].cache) - 1
              /\ backends[i].type = "file" =>
                    LET p == FilePath(backends[i], key)
                        g == FileGet(Cur, i, key, "none")
                        w == FileSet(g.S, i, key, "v1", NoneInt, "none")
                    IN  \* the get that detects the expiry removes both files
                        /\ g.res = "None"
                        /\ DOMAIN g.S.fs = DOMAIN fs \ {p, MetaPath(p)}
                        /\ MetaPath(p) \notin DOMAIN w.S.fs
                        \* the get that was made either did so or failed on an
                        \* OSError before it read the sidecar
                        /\ fs' = g.S.fs \/ fs' = fs]_vars

\* C25 witness: a get on the file tier reported a miss for a key written
\* with a ttl that has elapsed, and neither file is left.
C25_Witness ==
    /\ DirectCall("get") /\ backends[last.i].type = "file"
    /\ last.res = "None"
    /\ TtlWritten(last.i, last.key).live /\ now > TtlWritten(last.i, last.key).exp
    /\ FilePath(backends[last.i], last.key) \notin DOMAIN fs
    /\ MetaPath(FilePath(backends[last.i], last.key)) \notin DOMAIN fs

----------------------------------------------------------------------------
(* C26.  Read-through population does not extend an entry's lifetime:      *)
(* after MultiLevelCache.set(k, v, ttl=t) with t smaller than default_ttl  *)
(* and no later set of k, no MultiLevelCache.get(k) issued more than t     *)
(* seconds after the set returns v, whatever gets, evictions in the        *)
(* in-process tier and populations happened in between.                    *)

\* The latest MultiLevelCache.set of key, as the slowest backend (which no
\* population writes to) received it.
LatestSet(key) == TtlWritten(Len(backends), key)

C26_ClaimedLifetime ==
    \A key \in CacheKeys :
        (/\ LatestSet(key).live
         /\ LatestSet(key).ttl < default_ttl
         /\ now > LatestSet(key).exp)
        => NextGet(key).res # LatestSet(key).v

----------------------------------------------------------------------------
(* C27.  FileCache overwrite replaces the expiry together with the value:  *)
(* after set(k, v0, ttl=t) followed by set(k, v) with no ttl, get(k)       *)
(* returns v at every later instant, including after the t seconds of the  *)
(* first set have elapsed; the expiry of an earlier write never applies to *)
(* a later write of the same key.                                          *)

\* The last call was a set without ttl that the file backend accepted, of a
\* value its serializer returns unchanged.
WroteWithoutTtl(i, key, value) ==
    /\ backends[i].type = "file"
    /\ last.op = "set" /\ last.i = i /\ last.key = key /\ last.val = value
    /\ last.ttl = NoneInt /\ last.res = "True"
    /\ RoundTripped(i, value) = value

\* Stated for the instant of the write and for the instant the clock shows
\* next: get(k) returns the value written last.
C27_ClaimedOverwrite ==
    [][\A i \in 1..Len(backends), key \in Keys, value \in Values :
          (WroteWithoutTtl(i, key, value) /\ now' = now + 1) =>
              /\ GetRes(i, key) = value
              /\ GetRes(i, key)' = value]_vars

----------------------------------------------------------------------------
(* Several threads calling one MultiLevelCache.  MultiLevelCache holds no  *)
(* lock of its own: a call is a loop of backend calls, and between two of  *)
(* them another thread's backend call may run.  Each backend call is one   *)
(* step.  threads.t[t] is the thread's position: i is the loop index,      *)
(* found the index of the backend that answered a get, res the result so   *)
(* far.  History: threads.deleted[k] says that a delete(k) which no       *)
(* set(k) overlapped has returned and no set(k) has begun since; after     *)
(* says, of a get, that it began while threads.deleted held for its key    *)
(* and no set of the key has begun since, and of a delete, that no set of  *)
(* its key has been in progress since it began.                            *)

RaceIdle ==
    [pc |-> "idle", op |-> "none", key |-> <<>>, val |-> "None", i |-> 0,
     found |-> 0, res |-> "None", after |-> FALSE]

RaceCalls ==
    {[op |-> "set", key |-> k, val |-> "v1"] : k \in Keys}
    \cup {[op |-> op, key |-> <<"c">>, val |-> "None"] : op \in {"get", "delete"}}

Calling(op, key) == {t \in Threads : threads.t[t].op = op /\ threads.t[t].key = key}

RaceBegin(t, op, key, value) ==
    /\ threads.t[t].pc = "idle"
    /\ op = "get" =>
          mem[1].hits + mem[1].misses + Cardinality(Calling("get", key))
              < MaxCount * Cardinality(Keys)
    /\ op = "set" =>
          mem[1].evictions + Cardinality({u \in Threads : threads.t[u].op = "set"})
              < MaxCount
    /\ threads' =
          [t |-> [u \in Threads |->
                    IF u = t
                    THEN [RaceIdle EXCEPT !.pc = "loop", !.op = op, !.key = key,
                             !.val = value, !.i = 1,
                             !.res = IF op = "get" THEN "None" ELSE "False",
                             !.after = \/ op = "get" /\ threads.deleted[key]
                                       \/ op = "delete" /\ Calling("set", key) = {}]
                    ELSE IF op = "set" /\ threads.t[u].key = key
                         THEN [threads.t[u] EXCEPT !.after = FALSE]
                         ELSE threads.t[u]],
           deleted |-> IF op = "set" THEN [threads.deleted EXCEPT ![key] = FALSE]
                       ELSE threads.deleted]
    /\ UNCHANGED <<backends, default_ttl, mem, redis, fs, now, last, ghost, client>>

Store(S) ==
    /\ mem' = S.mem
    /\ redis' = S.redis
    /\ fs' = S.fs
    /\ UNCHANGED <<backends, default_ttl, now, last, ghost, client>>

\* get:  value = backend.get(key); if value is not None: ... populate
RaceGetStep(t) ==
    /\ threads.t[t].pc = "loop" /\ threads.t[t].op = "get"
    /\ LET i == threads.t[t].i
           r == BackendGet(Cur, i, threads.t[t].key, "none")
       IN  /\ Store(r.S)
           /\ threads' = [threads EXCEPT !.t[t] =
                  IF r.res # "None"
                  THEN [@ EXCEPT !.pc = "populate", !.found = i, !.res = r.res, !.i = 1]
                  ELSE IF i = Len(backends) THEN [@ EXCEPT !.pc = "done"]
                  ELSE [@ EXCEPT !.i = i + 1]]

\* _populate_faster_backends:  self.backends[i].set(key, value, self.default_ttl)
RacePopulateStep(t) ==
    /\ threads.t[t].pc = "populate" /\ threads.t[t].i < threads.t[t].found
    /\ LET i == threads.t[t].i
           r == BackendSet(Cur, i, threads.t[t].key, threads.t[t].res, default_ttl, "none")
       IN  /\ Store(r.S)
           /\ threads' = [threads EXCEPT !.t[t].i = i + 1]

\* set:  if backend.set(key, value, ttl): success = True
RaceSetStep(t) ==
    /\ threads.t[t].pc = "loop" /\ threads.t[t].op = "set"
    /\ LET i == threads.t[t].i
           r == BackendSet(Cur, i, threads.t[t].key, threads.t[t].val,
                           EffectiveTTL(NoneInt), "none")
       IN  /\ Store(r.S)
           /\ threads' = [threads EXCEPT !.t[t] =
                  [@ EXCEPT !.res = IF r.res = "True" THEN "True" ELSE @,
                            !.i = i + 1,
                            !.pc = IF i = Len(backends) THEN "done" ELSE "loop"]]

\* delete:  if backend.delete(key): success = True
RaceDeleteStep(t) ==
    /\ threads.t[t].pc = "loop" /\ threads.t[t].op = "delete"
    /\ LET i == threads.t[t].i
           r == BackendDelete(Cur, i, threads.t[t].key, "none")
       IN  /\ Store(r.S)
           /\ threads' = [threads EXCEPT !.t[t] =
                  [@ EXCEPT !.res = IF r.res = "True" THEN "True" ELSE @,
                            !.i = i + 1,
                            !.pc = IF i = Len(backends) THEN "done" ELSE "loop"]]

\* The call returns its result.
RaceReturn(t) ==
    /\ \/ threads.t[t].pc = "done"
       \/ threads.t[t].pc = "populate" /\ threads.t[t].i >= threads.t[t].found
    /\ last' = [op |-> threads.t[t].op, i |-> 0, key |-> threads.t[t].key,
                val |-> threads.t[t].val, ttl |-> NoneInt, res |-> threads.t[t].res,
                calls |-> <<>>, thread |-> t, after |-> threads.t[t].after]
    /\ threads' = [threads EXCEPT
          !.t[t] = RaceIdle,
          !.deleted = IF threads.t[t].op = "delete" /\ threads.t[t].after
                      THEN [@ EXCEPT ![threads.t[t].key] = TRUE] ELSE @]
    /\ UNCHANGED <<backends, default_ttl, mem, redis, fs, now, ghost, client>>

RaceChains == {c \in CacheChains : c[1].type \in {"memory", "redis"} /\ c[1].ser # "json"}

InitRace ==
    /\ backends \in RaceChains
    /\ default_ttl \in DefaultTTLs
    /\ mem = [i \in 1..Len(backends) |-> EmptyMem]
    /\ redis = EmptyStore
    /\ fs = EmptyStore
    /\ now = StartTime
    /\ last = NoCall("init")
    /\ ghost = GhostInit(backends)
    /\ threads = [t |-> [x \in Threads |-> RaceIdle], deleted |-> [k \in Keys |-> FALSE]]
    /\ client = NoClient

NextRace ==
    \/ \E t \in Threads, c \in RaceCalls : RaceBegin(t, c.op, c.key, c.val)
    \/ \E t \in Threads : RaceGetStep(t)
    \/ \E t \in Threads : RacePopulateStep(t)
    \/ \E t \in Threads : RaceSetStep(t)
    \/ \E t \in Threads : RaceDeleteStep(t)
    \/ \E t \in Threads : RaceReturn(t)

SpecRace == InitRace /\ [][NextRace]_vars

(* C28.  With several threads using one MultiLevelCache: once delete(k)    *)
(* has returned, every get(k) that starts afterwards returns None until    *)
(* the next set(k), even when a get(k) by another thread overlapped the    *)
(* delete.                                                                 *)
C28_ClaimedDeleteWins ==
    (/\ last.op = "get"
     /\ "after" \in DOMAIN last
     /\ last.after)
    => last.res = "None"

----------------------------------------------------------------------------
(* set_many.  mapping is the dict as the sequence of its (key, value)      *)
(* items in insertion order.                                               *)

\* CacheBackend.set_many, inherited by MemoryCache and FileCache: a set per item.
RECURSIVE SetManyFrom(_, _, _, _, _)
SetManyFrom(R, i, mapping, ttl, fault) ==
    IF mapping = <<>> THEN R
    ELSE LET r == BackendSet(R.S, i, Head(mapping)[1], Head(mapping)[2], ttl, fault)
         IN  IF Raised(r.res) THEN r
             ELSE SetManyFrom(Ret(r.S, IF r.res = "True" THEN R.res ELSE "False"),
                              i, Tail(mapping), ttl, fault)

\* pipeline.execute(): the queued SETEX / SET commands, in order.
RECURSIVE PipelineExecute(_, _, _, _)
PipelineExecute(store, i, mapping, ttl) ==
    IF mapping = <<>> THEN store
    ELSE LET pk   == MakeKey(backends[i].ns, Head(mapping)[1])
             data == Serialize(backends[i].ser, Head(mapping)[2]).data
         IN  PipelineExecute(IF ttl # NoneInt THEN RedisCmdSetex(store, pk, ttl, data)
                             ELSE RedisCmdSet(store, pk, data),
                             i, Tail(mapping), ttl)

\* RedisCache.set_many: nothing is sent when an item cannot be serialized.
RedisSetMany(S, i, mapping, ttl, fault) ==
    LET bad == {n \in 1..Len(mapping) : ~Serialize(backends[i].ser, mapping[n][2]).ok}
    IN  IF bad # {}
        THEN LET n  == CHOOSE m \in bad : \A m2 \in bad : m <= m2
                 sr == Serialize(backends[i].ser, mapping[n][2])
             IN  Ret(S, IF sr.err = "SerializationError" THEN "False" ELSE sr.err)
        ELSE IF fault = "err" \/ (ttl # NoneInt /\ ttl <= 0) THEN Ret(S, "False")
        ELSE Ret([S EXCEPT !.redis = PipelineExecute(S.redis, i, mapping, ttl)], "True")

\* A variant that stores the first item only and reports success.
SetManyFirstOnly(S, i, mapping, ttl, fault) ==
    Ret(BackendSet(S, i, mapping[1][1], mapping[1][2], ttl, fault).S, "True")

BackendSetMany(S, i, mapping, ttl, fault) ==
    IF backends[i].type = "redis" THEN RedisSetMany(S, i, mapping, ttl, fault)
    ELSE SetManyFrom(Ret(S, "True"), i, mapping, ttl, fault)

RECURSIVE MultiSetManyFrom(_, _, _, _, _)
MultiSetManyFrom(R, i, mapping, ttl, sf) ==
    IF i > Len(backends) THEN R
    ELSE LET r == BackendSetMany(R.S, i, mapping, ttl, sf[i])
             c == Append(R.calls, Call("set_many", i, ttl, r.res))
         IN  IF Raised(r.res) THEN Out(r.S, r.res, c)
             ELSE MultiSetManyFrom(Out(r.S, IF r.res = "True" THEN "True" ELSE R.res, c),
                                   i + 1, mapping, ttl, sf)

MultiSetMany(S, mapping, ttl, sf) ==
    MultiSetManyFrom(Out(S, "False", <<>>), 1, mapping, EffectiveTTL(ttl), sf)

(* Single-threaded use of a MultiLevelCache in which every backend write   *)
(* succeeds: no backend suffers a fault, and a call in which a set or      *)
(* set_many of a backend returns False or raises is not made.  ghost[k] is *)
(* the value most recently set for k, None when k was never set or was     *)
(* deleted or cleared since.                                               *)

Mappings ==
    {<<<<k, v>>>> : k \in Keys, v \in SharedValues}
    \cup {<<<<o[1], w[1]>>, <<o[2], w[2]>>>> :
              o \in KeyOrders, w \in {<<"v1", "tup">>, <<"tup", "v1">>}}

Succeeded(calls) ==
    \A n \in DOMAIN calls : calls[n].op \in {"set", "set_many"} => calls[n].res = "True"

Agree(R, op, key, value, latest) ==
    /\ Within(R.S)
    /\ Succeeded(R.calls)
    /\ mem' = R.S.mem
    /\ redis' = R.S.redis
    /\ fs' = R.S.fs
    /\ last' = [op |-> op, i |-> 0, key |-> key, val |-> value, ttl |-> NoneInt,
                res |-> R.res, calls |-> R.calls]
    /\ ghost' = latest
    /\ UNCHANGED <<backends, default_ttl, now, threads, client>>

MappedTo(mapping, k) ==
    mapping[CHOOSE n \in 1..Len(mapping) : mapping[n][1] = k][2]

AgreeSet(key, value, ttl) ==
    Agree(MultiSet(Cur, key, value, ttl, NoFaults), "set", key, value,
          [ghost EXCEPT ![key] = value])

AgreeSetMany(mapping, ttl) ==
    Agree(MultiSetMany(Cur, mapping, ttl, NoFaults), "set_many", mapping, "None",
          [k \in Keys |-> IF \E n \in 1..Len(mapping) : mapping[n][1] = k
                          THEN MappedTo(mapping, k) ELSE ghost[k]])

AgreeGet(key) ==
    Agree(MultiGet(Cur, key, NoFaults), "get", key, "None", ghost)

AgreeGetMany(keys, ord) ==
    Agree(MultiGetMany(Cur, keys, ord, NoFaults), "get_many", keys, "None", ghost)

AgreeDelete(key) ==
    Agree(MultiDelete(Cur, key, NoFaults), "delete", key, "None",
          [ghost EXCEPT ![key] = "None"])

AgreeClear ==
    Agree(MultiClear(Cur, NoFaults), "clear", <<>>, "None", [k \in Keys |-> "None"])

AgreeChains ==
    {<<RedisBackend(DefaultNs, "json"), FileBackend(DefaultNs, "pickle")>>,
     <<MemoryBackend(DefaultNs, 1), RedisBackend(DefaultNs, "json")>>}

InitAgree ==
    /\ backends \in AgreeChains
    /\ default_ttl \in DefaultTTLs
    /\ mem = [i \in 1..Len(backends) |-> EmptyMem]
    /\ redis = EmptyStore
    /\ fs = EmptyStore
    /\ now = StartTime
    /\ last = NoCall("init")
    /\ ghost = [k \in Keys |-> "None"]
    /\ threads = <<>>
    /\ client = NoClient

NextAgree ==
    \/ \E key \in Keys, value \in SharedValues, ttl \in TTLs : AgreeSet(key, value, ttl)
    \/ \E mapping \in Mappings, ttl \in TTLs : AgreeSetMany(mapping, ttl)
    \/ \E key \in Keys : AgreeGet(key)
    \/ \E keys \in KeyLists, ord \in KeyOrders :
          (Len(keys) = 2 => ord = keys) /\ (Len(keys) = 1 => ord[1] = keys[1])
          /\ AgreeGetMany(keys, ord)
    \/ \E key \in Keys : AgreeDelete(key)
    \/ AgreeClear
    \/ Tick

SpecAgree == InitAgree /\ [][NextAgree]_vars

(* C29.  Tier agreement: in single-threaded use where every backend write  *)
(* succeeds, after any sequence of MultiLevelCache set, set_many, get,     *)
(* get_many, delete and clear calls, any two backends of the chain that    *)
(* both hold an unexpired entry for a key hold the same value for it, so   *)
(* get(k) never returns a value other than the one most recently set for k.*)
C29_ClaimedAgreement ==
    \A key \in Keys :
        /\ \A i, j \in 1..Len(backends) :
              (GetRes(i, key) # "None" /\ GetRes(j, key) # "None")
              => GetRes(i, key) = GetRes(j, key)
        /\ NextGet(key).res \in {"None", ghost[key]}

\* As the code has it: every backend that holds an unexpired entry for a key
\* holds the value most recently set for it as JSON encoding leaves it (a
\* tuple is a list after a json tier has stored it), so the backends agree and
\* get returns the most recently set value up to that encoding.
C29_Agreement ==
    \A key \in Keys :
        /\ \A i \in 1..Len(backends) :
              GetRes(i, key) # "None" => JsonNorm(GetRes(i, key)) = JsonNorm(ghost[key])
        /\ NextGet(key).res # "None" => JsonNorm(NextGet(key).res) = JsonNorm(ghost[key])

\* Every tier of a chain with a json tier holds the tuple most recently set,
\* after a get that populated the faster tier.
C29_Witness ==
    /\ last.op = "get" /\ last.i = 0
    /\ \E n \in DOMAIN last.calls : last.calls[n].op = "set"
    /\ \E key \in Keys :
          /\ ghost[key] = "tup"
          /\ \A i \in 1..Len(backends) : GetRes(i, key) # "None"
          /\ \E i \in 1..Len(backends) : backends[i].ser = "json"

====
